---- MODULE Spec2Model ----
(***************************************************************************)
(* A model of envars2: the scoped-override document model (models.py), the *)
(* document codec and the resolution engine (main.py) and the mutating     *)
(* commands of the command line (cli.py).                                  *)
(*                                                                         *)
(* A string value is a sequence of tokens.  A token is a chunk of literal  *)
(* text, or a template reference Ref(n), the text "{{ n }}".  A python     *)
(* dict is a sequence of [k, v] records, in insertion order.               *)
(***************************************************************************)
EXTENDS Naturals, Sequences, FiniteSets, TLC

VARIABLES
    file,       \* the persisted document (envars.yml), or NoFile
    manager,    \* the VariableManager of the running invocation (ctx.obj)
    last,       \* the outcome of the last operation
    res,        \* the outcome of the last resolution pass
    output_file, \* the file rotate-kms-key writes (envars.new.yml), or NoFile
    cf_exports  \* a CloudFormationExports instance and the history of its calls

vars == <<file, manager, last, res, output_file, cf_exports>>

---------------------------------------------------------------------------
(* Strings, values and dicts *)

\* python's None, for an optional string
None == "<None>"

\* python truthiness of an optional string: neither None nor ""
Truthy(s) == s # None /\ s # ""

\* the template text {{ n }}
Ref(n) == "{{ " \o n \o " }}"

\* the names a template can reference
Names == {"A", "B", "C"}

\* lexicographic order of the names (python's sorted on str)
NameOrder == <<"A", "B", "C">>

\* the three indirection prefixes
Prefixes == {"parameter_store:", "gcp_secret_manager:", "cloudformation_export:"}

\* the base64 text of a ciphertext, as the program sees a Secret used as a str
CipherText == <<"b64">>

\* a plaintext value
Plain(text) == [secret |-> FALSE, text |-> text, key |-> None, ctx |-> {}]

\* the key prefixes that select the KMS provider
IsAwsKey(k) == k \in {"arn:aws:kms:k1", "arn:aws:kms:k2"}
IsGcpKey(k) == k \in {"projects/p1", "projects/p2"}

\* AWSKMSAgent.encrypt / GCPKMSAgent.encrypt: the ciphertext seals the plaintext
\* under the key and the encryption context (the additional authenticated data)
KmsEncrypt(data, key_id, encryption_context) ==
    [secret |-> TRUE, text |-> data, key |-> key_id, ctx |-> encryption_context]

\* AWSKMSAgent.decrypt: the key travels in the ciphertext; the context must be
\* the one the ciphertext was sealed with
AwsDecrypt(value, encryption_context) ==
    IF IsAwsKey(value.key) /\ value.ctx = encryption_context
    THEN [ok |-> TRUE, text |-> value.text]
    ELSE [ok |-> FALSE, text |-> <<>>]

\* GCPKMSAgent.decrypt: the key path is supplied by the caller
GcpDecrypt(value, key_path, encryption_context) ==
    IF value.key = key_path /\ value.ctx = encryption_context
    THEN [ok |-> TRUE, text |-> value.text]
    ELSE [ok |-> FALSE, text |-> <<>>]

\* the str the program sees when it treats a value as a string
StrOf(value) == IF value.secret THEN CipherText ELSE value.text

Range(s) == {s[i] : i \in 1..Len(s)}

DictKeys(d) == {d[i].k : i \in 1..Len(d)}

DictKeySeq(d) == [i \in 1..Len(d) |-> d[i].k]

DictGet(d, k) == (CHOOSE i \in 1..Len(d) : d[i].k = k)

DictValue(d, k) == d[DictGet(d, k)].v

\* d[k] = v: in place when k is a key already, appended otherwise
DictSet(d, k, v) ==
    IF k \in DictKeys(d)
    THEN [i \in 1..Len(d) |-> IF d[i].k = k THEN [k |-> k, v |-> v] ELSE d[i]]
    ELSE Append(d, [k |-> k, v |-> v])

\* next((x for x in s if P(x)), dflt)
FirstOr(s, P(_), dflt) ==
    LET hits == SelectSeq(s, P) IN IF hits = <<>> THEN dflt ELSE Head(hits)

---------------------------------------------------------------------------
(* models.py *)

Variable(name, description, validation) ==
    [name |-> name, description |-> description, validation |-> validation]

Location(name, location_id, kms_key) ==
    [location_id |-> location_id, name |-> name, kms_key |-> kms_key]

VariableValue(variable_name, value, scope_type, environment_name, location_id) ==
    [variable_name |-> variable_name, value |-> value, scope_type |-> scope_type,
     environment_name |-> environment_name, location_id |-> location_id]

\* get_variable's None
NoValue == VariableValue(None, Plain(<<>>), "NONE", None, None)

VariableManager(app, kms_key, description_mandatory) ==
    [app |-> app, kms_key |-> kms_key, description_mandatory |-> description_mandatory,
     environments |-> <<>>, locations |-> <<>>, variables |-> <<>>,
     variable_values |-> <<>>]

VariableNames(m) == {m.variables[i].name : i \in 1..Len(m.variables)}

LocationNames(m) == {m.locations[i].name : i \in 1..Len(m.locations)}

LocationIds(m) == {m.locations[i].location_id : i \in 1..Len(m.locations)}

\* next((lo for lo in locations.values() if lo.name == name), None), its id
LocIdOfName(m, location_name) ==
    FirstOr(m.locations, LAMBDA lo : lo.name = location_name,
            Location(None, None, None)).location_id

\* next((l.name for l in locations.values() if l.location_id == id), None)
LocNameOfId(m, location_id) ==
    FirstOr(m.locations, LAMBDA lo : lo.location_id = location_id,
            Location(None, None, None)).name

\* VariableManager.get_variable with the LOCATION step tried before the
\* ENVIRONMENT step
GetVariableLocFirst(m, variable_name, environment_name, location_name) ==
    IF variable_name \notin VariableNames(m) THEN NoValue
    ELSE
    LET loc_id == IF Truthy(location_name) THEN LocIdOfName(m, location_name) ELSE None
        candidate_values ==
            SelectSeq(m.variable_values, LAMBDA vv : vv.variable_name = variable_name)
        specific_val ==
            IF Truthy(environment_name) /\ Truthy(loc_id)
            THEN FirstOr(candidate_values,
                         LAMBDA vv : /\ vv.scope_type = "SPECIFIC"
                                     /\ vv.environment_name = environment_name
                                     /\ vv.location_id = loc_id,
                         NoValue)
            ELSE NoValue
        env_val ==
            IF Truthy(environment_name)
            THEN FirstOr(candidate_values,
                         LAMBDA vv : /\ vv.scope_type = "ENVIRONMENT"
                                     /\ vv.environment_name = environment_name,
                         NoValue)
            ELSE NoValue
        loc_val ==
            IF Truthy(loc_id)
            THEN FirstOr(candidate_values,
                         LAMBDA vv : vv.scope_type = "LOCATION" /\ vv.location_id = loc_id,
                         NoValue)
            ELSE NoValue
        default_val ==
            FirstOr(candidate_values, LAMBDA vv : vv.scope_type = "DEFAULT", NoValue)
    IN  IF specific_val # NoValue THEN specific_val
        ELSE IF loc_val # NoValue THEN loc_val
        ELSE IF env_val # NoValue THEN env_val
        ELSE default_val

\* VariableManager.get_variable
GetVariable(m, variable_name, environment_name, location_name) ==
    IF variable_name \notin VariableNames(m) THEN NoValue
    ELSE
    LET loc_id == IF Truthy(location_name) THEN LocIdOfName(m, location_name) ELSE None
        candidate_values ==
            SelectSeq(m.variable_values, LAMBDA vv : vv.variable_name = variable_name)
        specific_val ==
            IF Truthy(environment_name) /\ Truthy(loc_id)
            THEN FirstOr(candidate_values,
                         LAMBDA vv : /\ vv.scope_type = "SPECIFIC"
                                     /\ vv.environment_name = environment_name
                                     /\ vv.location_id = loc_id,
                         NoValue)
            ELSE NoValue
        env_val ==
            IF Truthy(environment_name)
            THEN FirstOr(candidate_values,
                         LAMBDA vv : /\ vv.scope_type = "ENVIRONMENT"
                                     /\ vv.environment_name = environment_name,
                         NoValue)
            ELSE NoValue
        loc_val ==
            IF Truthy(loc_id)
            THEN FirstOr(candidate_values,
                         LAMBDA vv : vv.scope_type = "LOCATION" /\ vv.location_id = loc_id,
                         NoValue)
            ELSE NoValue
        default_val ==
            FirstOr(candidate_values, LAMBDA vv : vv.scope_type = "DEFAULT", NoValue)
    IN  IF specific_val # NoValue THEN specific_val
        ELSE IF env_val # NoValue THEN env_val
        ELSE IF loc_val # NoValue THEN loc_val
        ELSE default_val

---------------------------------------------------------------------------
(* main.py: the resolution engine *)

\* the encryption context _get_decrypted_value derives from a binding's scope
DecryptionContext(m, vv) ==
    {<<"app", IF Truthy(m.app) THEN m.app ELSE "">>}
    \cup (IF Truthy(vv.environment_name)
          THEN {<<"environment", vv.environment_name>>} ELSE {})
    \cup (IF Truthy(vv.location_id) /\ Truthy(LocNameOfId(m, vv.location_id))
          THEN {<<"location", LocNameOfId(m, vv.location_id)>>} ELSE {})

\* _get_decrypted_value; called tells whether the KMS adapter was called
GetDecryptedValue(m, vv) ==
    IF ~vv.value.secret
    THEN [ok |-> TRUE, text |-> vv.value.text, called |-> FALSE, error |-> None]
    ELSE IF ~Truthy(m.kms_key)
    THEN [ok |-> FALSE, text |-> <<>>, called |-> FALSE, error |-> "no_kms_key"]
    ELSE IF IsAwsKey(m.kms_key)
    THEN LET r == AwsDecrypt(vv.value, DecryptionContext(m, vv))
         IN  [ok |-> r.ok, text |-> r.text, called |-> TRUE,
              error |-> IF r.ok THEN None ELSE "decrypt"]
    ELSE IF IsGcpKey(m.kms_key)
    THEN LET r == GcpDecrypt(vv.value, m.kms_key, DecryptionContext(m, vv))
         IN  [ok |-> r.ok, text |-> r.text, called |-> TRUE,
              error |-> IF r.ok THEN None ELSE "decrypt"]
    ELSE [ok |-> FALSE, text |-> <<>>, called |-> FALSE, error |-> "decrypt"]

\* meta.find_undeclared_variables(ast) - {"env"}
Deps(value) == {n \in Names : \E i \in 1..Len(value) : value[i] = Ref(n)}

\* sorted(names), as a sequence
SortNames(names) == SelectSeq(NameOrder, LAMBDA n : n \in names)

\* the while loop of _check_for_circular_dependencies
RECURSIVE Kahn(_, _, _, _)
Kahn(queue, sorted_order, in_degree, adj) ==
    IF queue = <<>> THEN sorted_order
    ELSE LET u == Head(queue)
             dec == [v \in DOMAIN in_degree |->
                        IF v \in Range(adj[u]) THEN in_degree[v] - 1 ELSE in_degree[v]]
             ready == SelectSeq(adj[u], LAMBDA v : dec[v] = 0)
         IN  Kahn(Tail(queue) \o ready, Append(sorted_order, u), dec, adj)

\* _check_for_circular_dependencies without the edge of a variable to itself
CheckForCircularDependenciesNoSelf(variables) ==
    LET keys == DictKeySeq(variables)
        deps(v) == (Deps(DictValue(variables, v)) \cap DictKeys(variables)) \ {v}
        adj == [u \in DictKeys(variables) |-> SelectSeq(keys, LAMBDA v : u \in deps(v))]
        in_degree == [v \in DictKeys(variables) |-> Cardinality(deps(v))]
        queue == SelectSeq(keys, LAMBDA v : in_degree[v] = 0)
        sorted_order == Kahn(queue, <<>>, in_degree, adj)
    IN  IF Len(sorted_order) # Len(variables)
        THEN [ok |-> FALSE, order |-> <<>>,
              cycle_nodes |-> SortNames(DictKeys(variables) \ Range(sorted_order))]
        ELSE [ok |-> TRUE, order |-> sorted_order, cycle_nodes |-> <<>>]

\* _check_for_circular_dependencies with no sort: the order of the dict
CheckForCircularDependenciesUnsorted(variables) ==
    [ok |-> TRUE, order |-> DictKeySeq(variables), cycle_nodes |-> <<>>]

\* _check_for_circular_dependencies: the topological order, or the error
CheckForCircularDependencies(variables) ==
    LET keys == DictKeySeq(variables)
        deps(v) == Deps(DictValue(variables, v)) \cap DictKeys(variables)
        adj == [u \in DictKeys(variables) |-> SelectSeq(keys, LAMBDA v : u \in deps(v))]
        in_degree == [v \in DictKeys(variables) |-> Cardinality(deps(v))]
        queue == SelectSeq(keys, LAMBDA v : in_degree[v] = 0)
        sorted_order == Kahn(queue, <<>>, in_degree, adj)
    IN  IF Len(sorted_order) # Len(variables)
        THEN [ok |-> FALSE, order |-> <<>>,
              cycle_nodes |-> SortNames(DictKeys(variables) \ Range(sorted_order))]
        ELSE [ok |-> TRUE, order |-> sorted_order, cycle_nodes |-> <<>>]

\* markupsafe.escape on one chunk of text, the work of Environment(autoescape=True)
EscapeToken(t) ==
    IF t = "&" THEN <<"&", "amp;">>
    ELSE IF t = "<" THEN <<"&", "lt;">>
    ELSE <<t>>

RECURSIVE Escape(_)
Escape(text) ==
    IF text = <<>> THEN <<>> ELSE EscapeToken(Head(text)) \o Escape(Tail(text))

\* template.render(context): literal text is kept, {{ n }} becomes the escaped
\* context value of n, and the empty string when the context has no n
RECURSIVE Render(_, _)
Render(value, context) ==
    IF value = <<>> THEN <<>>
    ELSE LET t == Head(value)
             out == IF \E x \in Names : t = Ref(x)
                    THEN LET nm == CHOOSE x \in Names : t = Ref(x)
                         IN  IF nm \in DictKeys(context)
                             THEN Escape(DictValue(context, nm)) ELSE <<>>
                    ELSE <<t>>
         IN  out \o Render(Tail(value), context)

\* an adapter's answer for a lookup key: SSMParameterStore.get_parameter,
\* GCPSecretManager.access_secret_version, CloudFormationExports.get_export_value
\* The store holds k, a plain text; kt, a text with a template in it; and kp, a
\* text that starts with a prefix.  Nothing else is found.
AdapterGet(prefix, key) ==
    IF key = <<"k">> THEN [found |-> TRUE, text |-> <<"fetched">>]
    ELSE IF key = <<"kt">> THEN [found |-> TRUE, text |-> <<Ref("A")>>]
    ELSE IF key = <<"kp">> THEN [found |-> TRUE, text |-> <<"parameter_store:", "k">>]
    ELSE [found |-> FALSE, text |-> <<>>]

\* the first loop of _get_resolved_variables from variable i on: pick the
\* binding of each variable and decrypt it
RECURSIVE PickLoop(_, _, _, _, _, _)
PickLoop(m, loc, env, decrypt, i, acc) ==
    IF i > Len(m.variables) \/ ~acc.ok THEN acc
    ELSE
    LET var_name == m.variables[i].name
        vv == GetVariable(m, var_name, env, loc)
    IN  IF vv = NoValue THEN PickLoop(m, loc, env, decrypt, i + 1, acc)
        ELSE IF decrypt /\ vv.value.secret
        THEN LET d == GetDecryptedValue(m, vv)
                 trace == IF d.called
                          THEN Append(acc.trace, [ev |-> "decrypt", var |-> var_name])
                          ELSE acc.trace
             IN  IF ~d.ok
                 THEN [ok |-> FALSE, error |-> d.error, vars |-> acc.vars, trace |-> trace]
                 ELSE IF d.text = <<"[DECRYPTION FAILED]">>
                 THEN [ok |-> FALSE, error |-> "decrypt", vars |-> acc.vars, trace |-> trace]
                 ELSE PickLoop(m, loc, env, decrypt, i + 1,
                               [acc EXCEPT !.vars = DictSet(@, var_name, d.text),
                                           !.trace = trace])
        ELSE IF StrOf(vv.value) = <<"[DECRYPTION FAILED]">>
        THEN [ok |-> FALSE, error |-> "decrypt", vars |-> acc.vars, trace |-> acc.trace]
        ELSE PickLoop(m, loc, env, decrypt, i + 1,
                      [acc EXCEPT !.vars = DictSet(@, var_name, StrOf(vv.value))])

\* the dereference of one rendered value with no test of the adapter's answer
DereferenceUntested(var_name, value, acc) ==
    IF value # <<>> /\ Head(value) \in Prefixes
    THEN [acc EXCEPT !.vars = DictSet(@, var_name,
                                      AdapterGet(Head(value), Tail(value)).text),
                     !.trace = Append(@, [ev |-> "lookup", var |-> var_name])]
    ELSE acc

\* the dereference of one rendered value
Dereference(var_name, value, acc) ==
    IF value # <<>> /\ Head(value) \in Prefixes
    THEN LET got == AdapterGet(Head(value), Tail(value))
             trace == Append(acc.trace,
                             [ev |-> "lookup", var |-> var_name])
         IN  IF ~got.found
             THEN [acc EXCEPT !.ok = FALSE, !.error = "not_found", !.trace = trace]
             ELSE [acc EXCEPT !.vars = DictSet(@, var_name, got.text), !.trace = trace]
    ELSE acc

\* the render loop with each value dereferenced as soon as it is rendered
RECURSIVE RenderLoopDereferencing(_, _, _, _)
RenderLoopDereferencing(resolved_vars, sorted_order, i, acc) ==
    IF i > Len(sorted_order) \/ ~acc.ok THEN acc
    ELSE LET var_name == sorted_order[i]
             value == Render(DictValue(resolved_vars, var_name), acc.vars)
             step == [acc EXCEPT !.vars = DictSet(@, var_name, value),
                                 !.trace = Append(@, [ev |-> "render", var |-> var_name])]
         IN  RenderLoopDereferencing(resolved_vars, sorted_order, i + 1,
                                     Dereference(var_name, value, step))

\* the render loop of _get_resolved_variables from position i of sorted_order on
RECURSIVE RenderLoop(_, _, _, _)
RenderLoop(resolved_vars, sorted_order, i, acc) ==
    IF i > Len(sorted_order) THEN acc
    ELSE LET var_name == sorted_order[i]
             value == Render(DictValue(resolved_vars, var_name), acc.vars)
         IN  RenderLoop(resolved_vars, sorted_order, i + 1,
                        [acc EXCEPT !.vars = DictSet(@, var_name, value),
                                    !.trace = Append(@, [ev |-> "render", var |-> var_name])])

\* the dereference loop of _get_resolved_variables over the items of rendered
RECURSIVE DerefLoop(_, _, _)
DerefLoop(rendered, i, acc) ==
    IF i > Len(rendered) \/ ~acc.ok THEN acc
    ELSE DerefLoop(rendered, i + 1, Dereference(rendered[i].k, rendered[i].v, acc))

\* the record of a resolution pass
Pass(status, error, out, resolved, rendered, cycle_nodes, trace) ==
    [status |-> status, error |-> error, out |-> out, resolved |-> resolved,
     rendered |-> rendered, cycle_nodes |-> cycle_nodes, trace |-> trace]

\* _get_resolved_variables, lines 396-421: dereference, and the result
Dereferenced(resolved, rendered, final) ==
    IF ~final.ok
    THEN Pass("error", final.error, <<>>, resolved, rendered, <<>>, final.trace)
    ELSE Pass("ok", None, final.vars, resolved, rendered, <<>>, final.trace)

\* the dereference loop run a second time over its own result
RenderedDereferencingAgain(resolved, rendered) ==
    Dereferenced(resolved, rendered.vars,
                 DerefLoop(DerefLoop(rendered.vars, 1, rendered).vars, 1,
                           DerefLoop(rendered.vars, 1, rendered)))

\* _get_resolved_variables, lines 380-394: render in the order of the check
Rendered(resolved, rendered) ==
    Dereferenced(resolved, rendered.vars, DerefLoop(rendered.vars, 1, rendered))

\* _get_resolved_variables, line 379: the check for circular dependencies
Checked(picked, check) ==
    IF ~check.ok
    THEN Pass("error", "circular", <<>>, picked.vars, <<>>, check.cycle_nodes,
              picked.trace)
    ELSE Rendered(picked.vars,
                  RenderLoop(picked.vars, check.order, 1,
                             [ok |-> TRUE, error |-> None, vars |-> <<>>,
                              trace |-> picked.trace]))

\* _get_resolved_variables, lines 365-376: the picked and decrypted values
Picked(picked) ==
    IF ~picked.ok
    THEN Pass("error", picked.error, <<>>, <<>>, <<>>, <<>>, picked.trace)
    ELSE Checked(picked, CheckForCircularDependencies(picked.vars))

\* _get_resolved_variables (the STAGE variable of the process is not set)
GetResolvedVariables(m, loc, env, decrypt) ==
    IF env = None
    THEN Pass("error", "missing_env", <<>>, <<>>, <<>>, <<>>, <<>>)
    ELSE IF env \notin Range(m.environments)
    THEN Pass("error", "unknown_env", <<>>, <<>>, <<>>, <<>>, <<>>)
    ELSE IF loc \notin LocationNames(m)
    THEN Pass("error", "unknown_loc", <<>>, <<>>, <<>>, <<>>, <<>>)
    ELSE Picked(PickLoop(m, loc, env, decrypt, 1,
                         [ok |-> TRUE, error |-> None, vars |-> <<>>, trace |-> <<>>]))

---------------------------------------------------------------------------
(* models.py: the add_* methods.  st is [ok, m]: ok is FALSE once a method  *)
(* has raised, and m is the manager as the raise left it                    *)

\* VariableManager.add_environment
AddEnvironment(st, name) ==
    IF ~st.ok \/ name \in Range(st.m.environments) THEN [st EXCEPT !.ok = FALSE]
    ELSE [st EXCEPT !.m.environments = Append(@, name)]

\* VariableManager.add_location
AddLocation(st, location) ==
    IF ~st.ok \/ location.location_id \in LocationIds(st.m) THEN [st EXCEPT !.ok = FALSE]
    ELSE [st EXCEPT !.m.locations = Append(@, location)]

\* VariableManager.add_variable
AddVariable(st, variable) ==
    IF ~st.ok \/ variable.name \in VariableNames(st.m) THEN [st EXCEPT !.ok = FALSE]
    ELSE [st EXCEPT !.m.variables = Append(@, variable)]

\* the test of add_variable_value's loop: existing_vv has the scope tuple of var_value
SameScope(existing_vv, var_value) ==
    /\ existing_vv.variable_name = var_value.variable_name
    /\ existing_vv.scope_type = var_value.scope_type
    /\ \/ var_value.scope_type = "DEFAULT"
       \/ /\ var_value.scope_type = "ENVIRONMENT"
          /\ existing_vv.environment_name = var_value.environment_name
       \/ /\ var_value.scope_type = "LOCATION"
          /\ existing_vv.location_id = var_value.location_id
       \/ /\ var_value.scope_type = "SPECIFIC"
          /\ existing_vv.environment_name = var_value.environment_name
          /\ existing_vv.location_id = var_value.location_id

\* VariableManager.add_variable_value without the uniqueness check
AddVariableValueUnchecked(st, var_value) ==
    IF ~st.ok THEN st
    ELSE [st EXCEPT !.m.variable_values = Append(@, var_value)]

\* VariableManager.add_variable_value
AddVariableValue(st, var_value) ==
    IF ~st.ok THEN st
    ELSE IF \E i \in 1..Len(st.m.variable_values) :
               SameScope(st.m.variable_values[i], var_value)
    THEN [st EXCEPT !.ok = FALSE]
    ELSE [st EXCEPT !.m.variable_values = Append(@, var_value)]

---------------------------------------------------------------------------
(* main.py: the document codec.  A written file is the mapping yaml.dump     *)
(* receives: the configuration, and per variable a block with its metadata, *)
(* its default and a dict from outer key to a scalar or a nested mapping    *)

\* lexicographic order of every name of the model (python's sorted on str)
SortOrder == <<"A", "B", "C", "aws", "dev", "gcp", "prod">>

Sorted(names) == SelectSeq(SortOrder, LAMBDA n : n \in names)

\* the last value a loop over vvs assigns for the bindings satisfying P
LastValue(vvs, P(_)) ==
    LET hits == SelectSeq(vvs, P) IN hits[Len(hits)].value

Scalar(value) == [scalar |-> TRUE, value |-> value, sub |-> <<>>]

Mapping(sub) == [scalar |-> FALSE, value |-> Plain(<<>>), sub |-> sub]

\* env_values of write_envars_yml, as sorted items
EnvValues(vvs) ==
    LET envs == Sorted({vvs[i].environment_name : i \in
                          {j \in 1..Len(vvs) : vvs[j].scope_type = "ENVIRONMENT"}})
    IN  [i \in 1..Len(envs) |->
            [k |-> envs[i],
             v |-> Scalar(LastValue(vvs, LAMBDA vv : /\ vv.scope_type = "ENVIRONMENT"
                                                     /\ vv.environment_name = envs[i]))]]

\* loc_values of write_envars_yml, as sorted items
LocValues(m, vvs) ==
    LET locs == Sorted({LocNameOfId(m, vvs[i].location_id) : i \in
                          {j \in 1..Len(vvs) : /\ vvs[j].scope_type = "LOCATION"
                                               /\ Truthy(LocNameOfId(m, vvs[j].location_id))}})
    IN  [i \in 1..Len(locs) |->
            [k |-> locs[i],
             v |-> Scalar(LastValue(vvs, LAMBDA vv :
                                 /\ vv.scope_type = "LOCATION"
                                 /\ LocNameOfId(m, vv.location_id) = locs[i]))]]

\* specific_values[env] of write_envars_yml, as sorted items
SpecificLocValues(m, vvs, env) ==
    LET locs == Sorted({LocNameOfId(m, vvs[i].location_id) : i \in
                          {j \in 1..Len(vvs) : /\ vvs[j].scope_type = "SPECIFIC"
                                               /\ vvs[j].environment_name = env
                                               /\ Truthy(LocNameOfId(m, vvs[j].location_id))}})
    IN  [i \in 1..Len(locs) |->
            [k |-> locs[i],
             v |-> LastValue(vvs, LAMBDA vv :
                                 /\ vv.scope_type = "SPECIFIC"
                                 /\ vv.environment_name = env
                                 /\ LocNameOfId(m, vv.location_id) = locs[i])]]

\* specific_values of write_envars_yml, as sorted items
SpecificValues(m, vvs) ==
    LET envs == Sorted({vvs[i].environment_name : i \in
                          {j \in 1..Len(vvs) : /\ vvs[j].scope_type = "SPECIFIC"
                                               /\ Truthy(LocNameOfId(m, vvs[j].location_id))}})
    IN  [i \in 1..Len(envs) |->
            [k |-> envs[i], v |-> Mapping(SpecificLocValues(m, vvs, envs[i]))]]

\* var_data[k] = v for each item in turn
RECURSIVE DictSetAll(_, _)
DictSetAll(d, items) ==
    IF items = <<>> THEN d
    ELSE DictSetAll(DictSet(d, Head(items).k, Head(items).v), Tail(items))

\* the block of one variable with the locations entered before the environments
VarDataLocationsFirst(m, variable) ==
    LET vvs == SelectSeq(m.variable_values,
                         LAMBDA vv : vv.variable_name = variable.name)
        defaults == SelectSeq(vvs, LAMBDA vv : vv.scope_type = "DEFAULT")
    IN  [description |-> IF Truthy(variable.description) THEN variable.description ELSE None,
         validation |-> IF Truthy(variable.validation) THEN variable.validation ELSE None,
         has_default |-> defaults # <<>>,
         default |-> IF defaults # <<>> THEN defaults[Len(defaults)].value ELSE Plain(<<>>),
         keys |-> DictSetAll(DictSetAll(LocValues(m, vvs), EnvValues(vvs)),
                             SpecificValues(m, vvs))]

\* the block write_envars_yml builds for one variable (var_data)
VarData(m, variable) ==
    LET vvs == SelectSeq(m.variable_values,
                         LAMBDA vv : vv.variable_name = variable.name)
        defaults == SelectSeq(vvs, LAMBDA vv : vv.scope_type = "DEFAULT")
    IN  [description |-> IF Truthy(variable.description) THEN variable.description ELSE None,
         validation |-> IF Truthy(variable.validation) THEN variable.validation ELSE None,
         has_default |-> defaults # <<>>,
         default |-> IF defaults # <<>> THEN defaults[Len(defaults)].value ELSE Plain(<<>>),
         keys |-> DictSetAll(DictSetAll(EnvValues(vvs), LocValues(m, vvs)),
                             SpecificValues(m, vvs))]

\* the configuration section; with nothing truthy in it the section is not
\* written, and a load then sees the defaults
Configuration(m) ==
    IF \/ Truthy(m.app) \/ Truthy(m.kms_key) \/ m.description_mandatory
       \/ m.environments # <<>> \/ m.locations # <<>>
    THEN [app |-> m.app, kms_key |-> m.kms_key,
          description_mandatory |-> m.description_mandatory,
          environments |-> Sorted(Range(m.environments)),
          locations |->
              LET names == Sorted(LocationNames(m))
              IN  [i \in 1..Len(names) |->
                      LET lo == CHOOSE x \in Range(m.locations) : x.name = names[i]
                      IN  Location(lo.name, lo.location_id,
                                   IF Truthy(lo.kms_key) THEN lo.kms_key ELSE None)]]
    ELSE [app |-> None, kms_key |-> None, description_mandatory |-> FALSE,
          environments |-> <<>>, locations |-> <<>>]

\* write_envars_yml: the file it writes
WriteEnvarsYml(m) ==
    [exists |-> TRUE,
     configuration |-> Configuration(m),
     environment_variables |->
        LET names == Sorted(VariableNames(m))
        IN  [i \in 1..Len(names) |->
                [k |-> names[i],
                 v |-> VarData(m, CHOOSE x \in Range(m.variables) : x.name = names[i])]]]

\* load_from_yaml, lines 110-126 and 141-155: the items of a nested mapping
RECURSIVE LoadNested(_, _, _, _, _, _)
LoadNested(st, var_name, under_env, outer, sub, i) ==
    IF i > Len(sub) \/ ~st.ok THEN st
    ELSE IF under_env
    THEN IF sub[i].k \in LocationNames(st.m)
         THEN LoadNested(
                 AddVariableValue(st, VariableValue(var_name, sub[i].v, "SPECIFIC", outer,
                                                    LocIdOfName(st.m, sub[i].k))),
                 var_name, under_env, outer, sub, i + 1)
         ELSE [st EXCEPT !.ok = FALSE]
    ELSE IF sub[i].k \in Range(st.m.environments)
         THEN LoadNested(
                 AddVariableValue(st, VariableValue(var_name, sub[i].v, "SPECIFIC", sub[i].k,
                                                    LocIdOfName(st.m, outer))),
                 var_name, under_env, outer, sub, i + 1)
         ELSE [st EXCEPT !.ok = FALSE]

\* load_from_yaml, lines 103-166: the keys of one variable block
RECURSIVE LoadKeys(_, _, _, _)
LoadKeys(st, var_name, keys, i) ==
    IF i > Len(keys) \/ ~st.ok THEN st
    ELSE IF keys[i].k \in Range(st.m.environments)
    THEN IF ~keys[i].v.scalar
         THEN LoadKeys(LoadNested(st, var_name, TRUE, keys[i].k, keys[i].v.sub, 1),
                       var_name, keys, i + 1)
         ELSE LoadKeys(AddVariableValue(st, VariableValue(var_name, keys[i].v.value,
                                                          "ENVIRONMENT", keys[i].k, None)),
                       var_name, keys, i + 1)
    ELSE IF keys[i].k \in LocationNames(st.m)
    THEN IF ~keys[i].v.scalar
         THEN LoadKeys(LoadNested(st, var_name, FALSE, keys[i].k, keys[i].v.sub, 1),
                       var_name, keys, i + 1)
         ELSE LoadKeys(AddVariableValue(st, VariableValue(var_name, keys[i].v.value,
                                                          "LOCATION", None,
                                                          LocIdOfName(st.m, keys[i].k))),
                       var_name, keys, i + 1)
    ELSE [st EXCEPT !.ok = FALSE]

\* load_from_yaml, lines 86-101: the variable and its default
LoadVariable(st, var_name, var_data) ==
    IF var_data.has_default
    THEN AddVariableValue(
             AddVariable(st, Variable(var_name, var_data.description, var_data.validation)),
             VariableValue(var_name, var_data.default, "DEFAULT", None, None))
    ELSE AddVariable(st, Variable(var_name, var_data.description, var_data.validation))

\* load_from_yaml, lines 83-166: the variable blocks from block i on
RECURSIVE LoadVariables(_, _, _)
LoadVariables(st, blocks, i) ==
    IF i > Len(blocks) \/ ~st.ok THEN st
    ELSE LoadVariables(
             LoadKeys(LoadVariable(st, blocks[i].k, blocks[i].v),
                      blocks[i].k, blocks[i].v.keys, 1),
             blocks, i + 1)

RECURSIVE AddEnvironments(_, _)
AddEnvironments(st, names) ==
    IF names = <<>> THEN st
    ELSE AddEnvironments(AddEnvironment(st, Head(names)), Tail(names))

RECURSIVE AddLocations(_, _)
AddLocations(st, locations) ==
    IF locations = <<>> THEN st
    ELSE AddLocations(AddLocation(st, Head(locations)), Tail(locations))

\* load_from_yaml: [ok, m], ok FALSE when the load raises
LoadFromYaml(f) ==
    LoadVariables(
        AddLocations(
            AddEnvironments(
                [ok |-> TRUE,
                 m |-> VariableManager(f.configuration.app, f.configuration.kms_key,
                                       f.configuration.description_mandatory)],
                f.configuration.environments),
            f.configuration.locations),
        f.environment_variables, 1)

---------------------------------------------------------------------------
(* The resolution engine as a function of its inputs: the documents of      *)
(* SpecResolve, and the pass over one of them                               *)

NoFile == [exists |-> FALSE]

NoLast == [cmd |-> "none", exit |-> 0, error |-> None,
           var_name |-> None, env |-> None, loc |-> None, context |-> <<None, None>>]

NoRes == [called |-> FALSE, env |-> None, loc |-> None, decrypt |-> FALSE,
          pass |-> Pass("none", None, <<>>, <<>>, <<>>, <<>>, <<>>)]

\* CloudFormationExports.__init__: no cache, and no call made yet
NoExports == [exports_cache |-> None, calls |-> 0, enumerations |-> 0,
              successes |-> 0,
              last |-> [export_name |-> None, value |-> None,
                        enumerated |-> FALSE, failed |-> FALSE]]

TheApp == "app"

TheKey == "arn:aws:kms:k1"

\* a manager with the given contents
ManagerOf(kms_key, environments, locations, variables, variable_values) ==
    [VariableManager(TheApp, kms_key, FALSE) EXCEPT
        !.environments = environments, !.locations = locations,
        !.variables = variables, !.variable_values = variable_values]

\* the scope slots of a document with environments dev, prod and locations
\* aws (id 1), gcp (id 2), in the order a document lists them
Slots == <<
    [scope_type |-> "DEFAULT", environment_name |-> None, location_id |-> None, tag |-> "d"],
    [scope_type |-> "ENVIRONMENT", environment_name |-> "dev", location_id |-> None, tag |-> "e-dev"],
    [scope_type |-> "ENVIRONMENT", environment_name |-> "prod", location_id |-> None, tag |-> "e-prod"],
    [scope_type |-> "LOCATION", environment_name |-> None, location_id |-> "1", tag |-> "l-aws"],
    [scope_type |-> "LOCATION", environment_name |-> None, location_id |-> "2", tag |-> "l-gcp"],
    [scope_type |-> "SPECIFIC", environment_name |-> "dev", location_id |-> "1", tag |-> "s-dev-aws"],
    [scope_type |-> "SPECIFIC", environment_name |-> "dev", location_id |-> "2", tag |-> "s-dev-gcp"],
    [scope_type |-> "SPECIFIC", environment_name |-> "prod", location_id |-> "1", tag |-> "s-prod-aws"],
    [scope_type |-> "SPECIFIC", environment_name |-> "prod", location_id |-> "2", tag |-> "s-prod-gcp"] >>

Reverse(s) == [i \in 1..Len(s) |-> s[Len(s) + 1 - i]]

SlotValue(var_name, slot) ==
    VariableValue(var_name, Plain(<<slot.tag>>), slot.scope_type,
                  slot.environment_name, slot.location_id)

TwoEnvs == <<"dev", "prod">>

TwoLocs == <<Location("aws", "1", None), Location("gcp", "2", None)>>

\* documents for the choice of a binding: variable A bound at any set of scope
\* slots, each value naming its slot, listed in either order; B bound nowhere
ScopeDocs ==
    { ManagerOf(None, TwoEnvs, TwoLocs,
                <<Variable("A", None, None), Variable("B", None, None)>>,
                LET chosen == SelectSeq(Slots, LAMBDA sl : sl.tag \in tags)
                    vvs == [i \in 1..Len(chosen) |-> SlotValue("A", chosen[i])]
                IN  IF rev THEN Reverse(vvs) ELSE vvs)
      : tags \in SUBSET {Slots[i].tag : i \in 1..Len(Slots)}, rev \in BOOLEAN }

\* the default values of the template documents; Absent stands for no binding
Absent == <<"<absent>">>

TemplateTexts ==
    { <<"x">>, <<"&">>, <<Ref("A")>>, <<Ref("B")>>, <<Ref("C")>>,
      <<"p", Ref("B"), "q">>, <<"parameter_store:", "k">>,
      <<"cloudformation_export:", Ref("A")>>, Absent }

\* the dev-scoped bindings of the template documents: plaintexts, a Secret sealed
\* under the context the resolver derives, and a Secret sealed under another
OverrideValues ==
    { Plain(<<"y">>), Plain(<<Ref("A")>>),
      KmsEncrypt(<<Ref("C")>>, TheKey, {<<"app", TheApp>>, <<"environment", "dev">>}),
      KmsEncrypt(<<"x">>, TheKey, {<<"app", TheApp>>}) }

DefaultsOf(texts) ==
    LET vvs == [i \in 1..3 |->
                   VariableValue(NameOrder[i], Plain(texts[i]), "DEFAULT", None, None)]
    IN  SelectSeq(vvs, LAMBDA vv : vv.value.text # Absent)

ThreeVariables == [i \in 1..3 |-> Variable(NameOrder[i], None, None)]

\* documents for template expansion: A, B, C with any defaults and at most one
\* dev-scoped binding
TemplateDocs ==
    { ManagerOf(TheKey, <<"dev">>, <<Location("aws", "1", None)>>,
                ThreeVariables, DefaultsOf(texts))
      : texts \in [1..3 -> TemplateTexts] }
    \cup
    { ManagerOf(TheKey, <<"dev">>, <<Location("aws", "1", None)>>, ThreeVariables,
                Append(DefaultsOf(texts),
                       VariableValue(n, v, "ENVIRONMENT", "dev", None)))
      : texts \in [1..3 -> TemplateTexts], n \in Names, v \in OverrideValues }

ResolveInit ==
    /\ manager \in ScopeDocs \cup TemplateDocs
    /\ file = NoFile
    /\ last = NoLast
    /\ res = NoRes
    /\ output_file = NoFile
    /\ cf_exports = NoExports

\* get_env / output: one resolution pass over the document
Resolve ==
    \E env \in Range(manager.environments), loc \in LocationNames(manager),
       decrypt \in BOOLEAN :
        /\ res' = [called |-> TRUE, env |-> env, loc |-> loc, decrypt |-> decrypt,
                   pass |-> GetResolvedVariables(manager, loc, env, decrypt)]
        /\ UNCHANGED <<file, manager, last, output_file, cf_exports>>

ResolveNext == Resolve

SpecResolve == ResolveInit /\ [][ResolveNext]_vars

---------------------------------------------------------------------------
(* Properties of the resolution engine *)

\* the pass got past the choice and decryption of the bindings
PickedOk(pass) == pass.status = "ok" \/ pass.error \in {"circular", "not_found"}

\* the binding of v at exactly this scope, when the document has one
BindingAt(m, v, scope_type, environment_name, location_id) ==
    LET hits == {i \in 1..Len(m.variable_values) :
                    /\ m.variable_values[i].variable_name = v
                    /\ m.variable_values[i].scope_type = scope_type
                    /\ m.variable_values[i].environment_name = environment_name
                    /\ m.variable_values[i].location_id = location_id}
    IN  IF hits = {} THEN NoValue ELSE m.variable_values[CHOOSE i \in hits : TRUE]

\* the id of the location named l, None when l names no location
IdOfLocation(m, l) ==
    IF l \in LocationNames(m)
    THEN (CHOOSE lo \in Range(m.locations) : lo.name = l).location_id
    ELSE None

\* the first binding of v that exists in the order SPECIFIC(e, l), ENVIRONMENT(e),
\* LOCATION(l), DEFAULT
FirstInOrder(m, v, e, l) ==
    LET lid == IdOfLocation(m, l)
        chain == <<IF e # None /\ lid # None
                   THEN BindingAt(m, v, "SPECIFIC", e, lid) ELSE NoValue,
                   IF e # None THEN BindingAt(m, v, "ENVIRONMENT", e, None) ELSE NoValue,
                   IF lid # None THEN BindingAt(m, v, "LOCATION", None, lid) ELSE NoValue,
                   BindingAt(m, v, "DEFAULT", None, None)>>
        existing == SelectSeq(chain, LAMBDA b : b # NoValue)
    IN  IF existing = <<>> THEN NoValue ELSE Head(existing)

\* C1: for every variable, environment and location the binding get_variable
\* selects is the first that exists in the order SPECIFIC(e, l), ENVIRONMENT(e),
\* LOCATION(l), DEFAULT; in a resolution pass of context (e, l) a variable is in
\* the resolved mapping exactly when one of the four exists, with the value of
\* that binding.
C1_Precedence ==
    /\ \A v \in Names, e \in {"dev", "prod", None}, l \in {"aws", "gcp", None} :
          GetVariable(manager, v, e, l) = FirstInOrder(manager, v, e, l)
    /\ (res.called /\ PickedOk(res.pass)) =>
          \A v \in VariableNames(manager) :
             LET sel == FirstInOrder(manager, v, res.env, res.loc)
             IN  /\ v \in DictKeys(res.pass.resolved) <=> sel # NoValue
                 /\ res.pass.status = "ok" =>
                       (v \in DictKeys(res.pass.out) <=> sel # NoValue)
                 /\ (sel # NoValue /\ ~sel.value.secret) =>
                       DictValue(res.pass.resolved, v) = sel.value.text

\* C1's case: in context (dev, aws) variable A has an ENVIRONMENT, a LOCATION and
\* a DEFAULT binding and no SPECIFIC one, the pass yields the ENVIRONMENT value,
\* and B, bound nowhere, is absent
C1_Witness ==
    /\ res.called /\ res.pass.status = "ok" /\ res.env = "dev" /\ res.loc = "aws"
    /\ BindingAt(manager, "A", "SPECIFIC", "dev", "1") = NoValue
    /\ BindingAt(manager, "A", "ENVIRONMENT", "dev", None) # NoValue
    /\ BindingAt(manager, "A", "LOCATION", None, "1") # NoValue
    /\ BindingAt(manager, "A", "DEFAULT", None, None) # NoValue
    /\ res.pass.out = <<[k |-> "A", v |-> <<"e-dev">>]>>
    /\ "B" \in VariableNames(manager)

\* the text of the binding selected for v in a context, as the pass sees it
SelectedText(m, v, e, l, decrypt) ==
    LET vv == GetVariable(m, v, e, l)
    IN  IF decrypt /\ vv.value.secret THEN vv.value.text ELSE StrOf(vv.value)

\* the variables with a selected binding in a context
SelectedNames(m, e, l) ==
    {v \in VariableNames(m) : GetVariable(m, v, e, l) # NoValue}

\* the reference graph of a context: u -> v when the text selected for v
\* references u
ReferenceEdges(m, e, l, decrypt) ==
    {uv \in SelectedNames(m, e, l) \X SelectedNames(m, e, l) :
        uv[1] \in Deps(SelectedText(m, uv[2], e, l, decrypt))}

\* the pairs joined by a path of at least one edge, of at most n + 1 edges
RECURSIVE Paths(_, _)
Paths(edges, n) ==
    IF n = 0 THEN edges
    ELSE LET shorter == Paths(edges, n - 1)
         IN  shorter \cup {xz \in {<<xy[1], yz[2]>> : xy \in shorter, yz \in edges} :
                              \E y \in Names : <<xz[1], y>> \in shorter /\ <<y, xz[2]>> \in edges}

\* the variables on a directed cycle
OnCycle(edges) == {n \in Names : <<n, n>> \in Paths(edges, Cardinality(Names))}

\* C3: a resolution pass that gets to the cycle check fails with the
\* circular-dependency error, and returns no mapping, exactly when the reference
\* graph over the bindings selected for its context has a cycle (a variable that
\* references itself counts).
C3_CycleError ==
    (res.called /\ PickedOk(res.pass)) =>
        /\ res.pass.error = "circular"
              <=> OnCycle(ReferenceEdges(manager, res.env, res.loc, res.decrypt)) # {}
        /\ res.pass.error = "circular" => res.pass.status = "error" /\ res.pass.out = <<>>

\* C3's case: a pass failed on a cycle through two variables, and none of them
\* references itself
C3_Witness ==
    /\ res.called /\ res.pass.error = "circular"
    /\ \E u, v \in Names :
          /\ u # v
          /\ {<<u, v>>, <<v, u>>} \subseteq
                ReferenceEdges(manager, res.env, res.loc, res.decrypt)
    /\ \A u \in Names :
          <<u, u>> \notin ReferenceEdges(manager, res.env, res.loc, res.decrypt)

\* the template text with every {{ n }} replaced by the context value of n as it is
RECURSIVE Substitute(_, _)
Substitute(value, context) ==
    IF value = <<>> THEN <<>>
    ELSE (IF \E x \in Names : Head(value) = Ref(x)
          THEN DictValue(context, CHOOSE x \in Names : Head(value) = Ref(x))
          ELSE <<Head(value)>>) \o Substitute(Tail(value), context)

\* C4: in a pass over an acyclic context the rendered value of each variable is
\* its template text with every {{ NAME }} replaced, character for character, by
\* the rendered value of NAME, whatever characters that value holds.
C4_RenderedVerbatim ==
    (res.called /\ res.pass.status = "ok") =>
        \A v \in DictKeys(res.pass.rendered) :
            Deps(DictValue(res.pass.resolved, v)) \subseteq DictKeys(res.pass.rendered)
            => DictValue(res.pass.rendered, v)
                  = Substitute(DictValue(res.pass.resolved, v), res.pass.rendered)

\* the place of an event in the order decrypt, render, lookup
Phase(event) == IF event.ev = "decrypt" THEN 1 ELSE IF event.ev = "render" THEN 2 ELSE 3

\* C6: in one resolution pass every KMS decrypt call comes before every render,
\* and every render before every adapter lookup.
C6_PhaseOrder ==
    \A i, j \in 1..Len(res.pass.trace) :
        i < j => Phase(res.pass.trace[i]) <= Phase(res.pass.trace[j])

\* C6's case: a pass that decrypted, rendered and looked up
C6_Witness ==
    /\ res.called /\ res.pass.status = "ok"
    /\ {res.pass.trace[i].ev : i \in 1..Len(res.pass.trace)} = {"decrypt", "render", "lookup"}

---------------------------------------------------------------------------
(* cli.py: the commands.  A command's outcome is [exit, error, m, env, loc]: *)
(* the exit code, the error it printed, the manager in memory when it ended *)
(* and, for a cycle error, the context the message names                    *)

Outcome(exit, error, m, env, loc) ==
    [exit |-> exit, error |-> error, m |-> m, env |-> env, loc |-> loc]

Fail(m, error) == Outcome(1, error, m, None, None)

Done(m) == Outcome(0, None, m, None, None)

\* _get_cloud_provider
GetCloudProvider(m) ==
    IF Truthy(m.kms_key) /\ IsAwsKey(m.kms_key) THEN "aws"
    ELSE IF Truthy(m.kms_key) /\ IsGcpKey(m.kms_key) THEN "gcp"
    ELSE None

\* re.match(pattern, value) for the patterns of the model: "x" matches a value
\* that starts with x
ReMatch(pattern, value) == value # <<>> /\ Head(value) = pattern

\* _validate_variable_value: TRUE when it does not raise
ValidateVariableValue(m, var_name, value) ==
    \A i \in 1..Len(m.variables) :
        (m.variables[i].name = var_name /\ Truthy(m.variables[i].validation))
            => ReMatch(m.variables[i].validation, value)

\* var_name.upper() == var_name
IsUpper(var_name) == var_name \in {"A", "B", "C"}

\* any(keyword in var_name for keyword in sensitive_keywords)
IsSensitive(var_name) == var_name \in {"PASSWORD", "TOKEN", "SECRET", "KEY"}

\* var_value.startswith(prefix)
StartsWith(var_value, prefix) == var_value # <<>> /\ Head(var_value) = prefix

\* the resolved_vars of one context in _check_all_contexts_for_circular_dependencies
ContextVars(m, env_name, loc_name) ==
    LET bound == SelectSeq(m.variables,
                     LAMBDA v : GetVariable(m, v.name, env_name, loc_name) # NoValue)
    IN  [i \in 1..Len(bound) |->
            [k |-> bound[i].name,
             v |-> StrOf(GetVariable(m, bound[i].name, env_name, loc_name).value)]]

\* the contexts in the order the two loops visit them
Contexts(m) ==
    [i \in 1..(Len(m.environments) * Len(m.locations)) |->
        [env |-> m.environments[((i - 1) \div Len(m.locations)) + 1],
         loc |-> m.locations[((i - 1) % Len(m.locations)) + 1].name]]

\* _check_all_contexts_for_circular_dependencies from context i on
RECURSIVE CheckAllContexts(_, _, _)
CheckAllContexts(m, contexts, i) ==
    IF i > Len(contexts) THEN Done(m)
    ELSE IF ~CheckForCircularDependencies(
                 ContextVars(m, contexts[i].env, contexts[i].loc)).ok
    THEN Outcome(1, "circular", m, contexts[i].env, contexts[i].loc)
    ELSE CheckAllContexts(m, contexts, i + 1)

\* add, lines 357-380: the binding of the same scope leaves, the new one enters
ReplaceValue(m, new_var_value) ==
    LET hit == {i \in 1..Len(m.variable_values) :
                    SameScope(m.variable_values[i], new_var_value)}
        first == CHOOSE i \in hit : \A j \in hit : i <= j
        kept == IF hit = {} THEN m.variable_values
                ELSE [i \in 1..(Len(m.variable_values) - 1) |->
                        IF i < first THEN m.variable_values[i]
                        ELSE m.variable_values[i + 1]]
    IN  AddVariableValue([ok |-> TRUE, m |-> [m EXCEPT !.variable_values = kept]],
                         new_var_value)

\* add, lines 380-394 with no check of the contexts
AddInsertUnchecked(st) ==
    IF ~st.ok THEN Fail(st.m, "duplicate")
    ELSE Done(st.m)

\* add, lines 380-394: insert, check every context, write
AddInsert(st) ==
    IF ~st.ok THEN Fail(st.m, "duplicate")
    ELSE CheckAllContexts(st.m, Contexts(st.m), 1)

\* add, lines 323-355: the location and the scope
AddScope(m, a, var_value) ==
    IF Truthy(a.loc) /\ m.locations = <<>> THEN Fail(m, "no_locations")
    ELSE IF Truthy(a.loc) /\ a.loc \notin LocationNames(m) THEN Fail(m, "unknown_loc")
    ELSE AddInsert(ReplaceValue(m,
            VariableValue(a.var_name, var_value,
                IF Truthy(a.env) /\ Truthy(a.loc) THEN "SPECIFIC"
                ELSE IF Truthy(a.env) THEN "ENVIRONMENT"
                ELSE IF Truthy(a.loc) THEN "LOCATION" ELSE "DEFAULT",
                IF Truthy(a.env) THEN a.env ELSE None,
                IF Truthy(a.loc) THEN LocIdOfName(m, a.loc) ELSE None)))

\* add, lines 311-318: the encryption context
EncryptionContext(m, env, loc) ==
    {<<"app", IF Truthy(m.app) THEN m.app ELSE "">>}
    \cup (IF Truthy(env) THEN {<<"env", env>>} ELSE {})
    \cup (IF Truthy(loc) THEN {<<"location", loc>>} ELSE {})

\* add, lines 288-321 with no test of the scope of a secret
AddEncryptUnscoped(m, a) ==
    IF ~a.secret THEN AddScope(m, a, Plain(a.var_value))
    ELSE IF ~Truthy(m.kms_key) THEN Fail(m, "no_kms_key")
    ELSE IF ~IsAwsKey(m.kms_key) /\ ~IsGcpKey(m.kms_key) THEN Fail(m, "unknown_kms_key")
    ELSE AddScope(m, a, KmsEncrypt(a.var_value, m.kms_key,
                                   EncryptionContext(m, a.env, a.loc)))

\* add, lines 288-321: the encryption of a secret
AddEncrypt(m, a) ==
    IF ~a.secret THEN AddScope(m, a, Plain(a.var_value))
    ELSE IF ~Truthy(a.env) /\ ~Truthy(a.loc) THEN Fail(m, "unscoped_secret")
    ELSE IF ~Truthy(m.kms_key) THEN Fail(m, "no_kms_key")
    ELSE IF ~IsAwsKey(m.kms_key) /\ ~IsGcpKey(m.kms_key) THEN Fail(m, "unknown_kms_key")
    ELSE AddScope(m, a, KmsEncrypt(a.var_value, m.kms_key,
                                   EncryptionContext(m, a.env, a.loc)))

\* add, lines 277-286: the variable is created, or its metadata updated
EnsureVariable(m, a) ==
    IF a.var_name \notin VariableNames(m)
    THEN [m EXCEPT !.variables =
                Append(@, Variable(a.var_name, a.description, a.validation))]
    ELSE [m EXCEPT !.variables =
                [i \in 1..Len(@) |->
                    IF @[i].name # a.var_name THEN @[i]
                    ELSE Variable(@[i].name,
                             IF Truthy(a.description) THEN a.description
                             ELSE @[i].description,
                             IF Truthy(a.validation) THEN a.validation
                             ELSE @[i].validation)]]

\* add_env_var on the loaded manager m with arguments a
AddEnvVar(m, a) ==
    IF ~IsUpper(a.var_name) THEN Fail(m, "not_uppercase")
    ELSE IF ~ValidateVariableValue(m, a.var_name, a.var_value) THEN Fail(m, "validation")
    ELSE IF IsSensitive(a.var_name) /\ ~a.secret /\ ~a.no_secret THEN Fail(m, "sensitive")
    ELSE IF GetCloudProvider(m) = "aws" /\ StartsWith(a.var_value, "gcp_secret_manager:")
    THEN Fail(m, "provider")
    ELSE IF /\ GetCloudProvider(m) = "gcp"
            /\ \/ StartsWith(a.var_value, "parameter_store:")
               \/ StartsWith(a.var_value, "cloudformation_export:")
    THEN Fail(m, "provider")
    ELSE IF /\ a.var_name \notin VariableNames(m)
            /\ m.description_mandatory /\ ~Truthy(a.description)
    THEN Fail(m, "description")
    ELSE AddEncrypt(EnsureVariable(m, a), a)

\* config, lines 596-606 with no test of the bindings
ConfigRemoveEnvUnguarded(m, remove_env) ==
    Done([m EXCEPT !.environments = SelectSeq(@, LAMBDA e : e # remove_env)])

\* config, lines 596-606: --remove-env
ConfigRemoveEnv(m, remove_env) ==
    IF \E i \in 1..Len(m.variable_values) :
            m.variable_values[i].environment_name = remove_env
    THEN Fail(m, "env_in_use")
    ELSE Done([m EXCEPT !.environments = SelectSeq(@, LAMBDA e : e # remove_env)])

\* config, lines 614-627: --remove-loc
ConfigRemoveLoc(m, remove_loc) ==
    IF remove_loc \notin LocationNames(m) THEN Done(m)
    ELSE IF \E i \in 1..Len(m.variable_values) :
                m.variable_values[i].location_id = LocIdOfName(m, remove_loc)
    THEN Fail(m, "loc_in_use")
    ELSE Done([m EXCEPT !.locations =
                    SelectSeq(@, LAMBDA lo : lo.location_id # LocIdOfName(m, remove_loc))])

\* name, loc_id = loc_item.split(":", 1)
ParseLocation(loc_item) ==
    IF loc_item = "aws:1" THEN Location("aws", "1", None)
    ELSE Location("gcp", "2", None)

\* config, lines 607-613: --add-loc name:id
ConfigAddLoc(m, add_loc) ==
    IF ParseLocation(add_loc).location_id \in LocationIds(m)
    THEN Fail(m, "invalid_location")
    ELSE Done([m EXCEPT !.locations = Append(@, ParseLocation(add_loc))])

\* config, lines 594-595: --add-env; add_environment's ValueError is not caught
ConfigAddEnv(m, add_env) ==
    IF add_env \in Range(m.environments) THEN Fail(m, "env_exists")
    ELSE Done([m EXCEPT !.environments = Append(@, add_env)])

\* config_command on the loaded manager m with one option given
ConfigCommand(m, option, arg) ==
    IF option = "kms_key" THEN Done([m EXCEPT !.kms_key = arg])
    ELSE IF option = "add_env" THEN ConfigAddEnv(m, arg)
    ELSE IF option = "remove_env" THEN ConfigRemoveEnv(m, arg)
    ELSE IF option = "add_loc" THEN ConfigAddLoc(m, arg)
    ELSE ConfigRemoveLoc(m, arg)

\* init_envars, lines 99-112: the manager init builds
InitManager(app_name, environments, locations, kms_key) ==
    AddLocations(
        AddEnvironments([ok |-> TRUE, m |-> VariableManager(app_name, kms_key, FALSE)],
                        environments),
        [i \in 1..Len(locations) |-> ParseLocation(locations[i])])

---------------------------------------------------------------------------
(* The command line as a state machine: each step is one run of a command   *)
(* against the file                                                          *)

\* the most bindings a document holds when an add starts
MaxValues == 3

EmptyManager == VariableManager(None, None, FALSE)

\* the main callback once load_from_yaml returned or raised
Loaded(st) == IF st.ok THEN Done(st.m) ELSE Fail(EmptyManager, "load")

\* the main callback: the manager every command but init starts from
Main(f) == IF ~f.exists THEN Fail(EmptyManager, "not_found") ELSE Loaded(LoadFromYaml(f))

\* the end of a command that writes the file whatever the outcome
FinishWriting(cmd, out, var_name, env, loc) ==
    /\ last' = [cmd |-> cmd, exit |-> out.exit, error |-> out.error,
                var_name |-> var_name, env |-> env, loc |-> loc,
                context |-> <<out.env, out.loc>>]
    /\ manager' = out.m
    /\ file' = WriteEnvarsYml(out.m)
    /\ UNCHANGED <<res, output_file, cf_exports>>

\* the end of a command: the file is written when the command succeeded
Finish(cmd, out, var_name, env, loc) ==
    /\ last' = [cmd |-> cmd, exit |-> out.exit, error |-> out.error,
                var_name |-> var_name, env |-> env, loc |-> loc,
                context |-> <<out.env, out.loc>>]
    /\ manager' = out.m
    /\ file' = IF out.exit = 0 THEN WriteEnvarsYml(out.m) ELSE file
    /\ UNCHANGED <<res, output_file, cf_exports>>

Init ==
    /\ file = NoFile
    /\ manager = EmptyManager
    /\ last = NoLast
    /\ res = NoRes
    /\ output_file = NoFile
    /\ cf_exports = NoExports

InitEnvs == {<<"dev">>, <<"dev", "prod">>}

InitLocs == {<<>>, <<"aws:1">>}

\* envars init --app --env --loc --kms-key [--force]
InitCmd ==
    \E environments \in InitEnvs, locations \in InitLocs, force \in BOOLEAN :
        IF file.exists /\ ~force
        THEN Finish("init", Fail(EmptyManager, "exists"), None, None, None)
        ELSE Finish("init", Done(InitManager(TheApp, environments, locations, TheKey).m),
                    None, None, None)

AddValues == {<<"x">>, <<Ref("A")>>, <<Ref("B")>>}

\* the arguments of an add: a value is x or a reference to the other
\* variable, and a secret is given the value x
AddArgs ==
    { a \in [var_name : {"A", "B"}, var_value : AddValues, env : {None, "dev", "prod"},
             loc : {None, "aws"}, secret : BOOLEAN, no_secret : {FALSE},
             description : {None}, validation : {None}] :
        /\ a.var_value # <<Ref(a.var_name)>>
        /\ a.secret => a.var_value = <<"x">> }

AddRun(loaded) ==
    /\ loaded.exit = 0 => Len(loaded.m.variable_values) < MaxValues
    /\ \E a \in AddArgs :
          Finish("add", IF loaded.exit = 0 THEN AddEnvVar(loaded.m, a) ELSE loaded,
                 a.var_name, a.env, a.loc)

\* envars add VAR=value [--env] [--loc] [--secret]
AddCmd == AddRun(Main(file))

ConfigOptions ==
    {<<"add_env", "prod">>, <<"remove_env", "prod">>,
     <<"add_loc", "aws:1">>, <<"remove_loc", "aws">>}

ConfigRun(loaded) ==
    \E option \in ConfigOptions :
    Finish("config",
           IF loaded.exit = 0 THEN ConfigCommand(loaded.m, option[1], option[2])
           ELSE loaded,
           None,
           IF option[1] \in {"add_env", "remove_env"} THEN option[2] ELSE None,
           IF option[1] \in {"add_loc", "remove_loc"} THEN option[2] ELSE None)

\* envars config --add-env | --remove-env | --add-loc | --remove-loc
ConfigCmd == ConfigRun(Main(file))

Next == InitCmd \/ AddCmd \/ ConfigCmd

Spec == Init /\ [][Next]_vars

---------------------------------------------------------------------------
(* Properties of the commands *)

\* every binding of m names an environment and a location of m
WellReferenced(m) ==
    \A i \in 1..Len(m.variable_values) :
        /\ Truthy(m.variable_values[i].environment_name)
              => m.variable_values[i].environment_name \in Range(m.environments)
        /\ Truthy(m.variable_values[i].location_id)
              => m.variable_values[i].location_id \in LocationIds(m)

\* the environments and the locations a lookup can be given, None for neither
LookupEnvs == {None, "dev", "prod"}

LookupLocs == {None, "aws", "gcp"}

\* C2: when a command has written the document it holds in memory, and the
\* bindings of that document name only its own environments and locations,
\* loading the written file succeeds and get_variable returns for every
\* variable, every environment or none and every location or none the value
\* it returns in the document that was written.
C2_RoundTrip ==
    (last.exit = 0 /\ file.exists /\ WellReferenced(manager)) =>
        /\ LoadFromYaml(file).ok
        /\ \A v \in VariableNames(manager), e \in LookupEnvs, l \in LookupLocs :
              GetVariable(LoadFromYaml(file).m, v, e, l).value
                  = GetVariable(manager, v, e, l).value

\* C5: for every Secret binding of a document that add has written, the context
\* resolution passes to the KMS adapter is the context the ciphertext was
\* sealed with, and decrypting the binding returns the plaintext.
C5_SecretContext ==
    (last.exit = 0 /\ file.exists) =>
        \A i \in 1..Len(manager.variable_values) :
            manager.variable_values[i].value.secret =>
                /\ DecryptionContext(manager, manager.variable_values[i])
                      = manager.variable_values[i].value.ctx
                /\ GetDecryptedValue(manager, manager.variable_values[i]).ok
                /\ GetDecryptedValue(manager, manager.variable_values[i]).text
                      = manager.variable_values[i].value.text

\* the configured contexts of m whose reference graph has a cycle
CyclicContexts(m) ==
    {c \in Range(m.environments) \X LocationNames(m) :
        OnCycle(ReferenceEdges(m, c[1], c[2], FALSE)) # {}}

\* C7: after every successful init, add or config, the reference graph over
\* the bindings selected for each configured environment and configured
\* location is acyclic.
C7_AcyclicEverywhere ==
    (last.exit = 0 /\ file.exists) => CyclicContexts(manager) = {}

\* the add got as far as the check of the contexts
AddChecked == last.cmd = "add" /\ last.error \in {None, "circular"}

\* C8: an add that gets to the cycle check fails with the circular-dependency
\* error exactly when, with the new binding inserted, some configured context
\* has a cyclic reference graph; the error names a configured context that is
\* cyclic; and the command leaves the file as it was.
C8_AddRejectsCycles ==
    /\ [](AddChecked =>
            /\ last.error = "circular" <=> CyclicContexts(manager) # {}
            /\ last.error = "circular" =>
                  last.exit = 1 /\ last.context \in CyclicContexts(manager))
    /\ [][(last'.cmd = "add" /\ last'.error = "circular") => file' = file]_vars

\* C8's case: an add was rejected for a cycle that exists in one configured
\* context and not in another, and the error names the cyclic one
C8_Witness ==
    /\ last.cmd = "add" /\ last.error = "circular"
    /\ last.context \in CyclicContexts(manager)
    /\ CyclicContexts(manager) # Range(manager.environments) \X LocationNames(manager)
    /\ file.exists

\* C9: after every successful init, add or config, every binding of the
\* document names an environment of the document's environment set, when it
\* names one, and a location id of the document's location map, when it names
\* one.
C9_ReferencesExist ==
    (last.exit = 0 /\ file.exists) => WellReferenced(manager)

---------------------------------------------------------------------------
(* The model as a library: a document loaded from a file, then calls of     *)
(* add_variable_value and of add's replace-then-insert on it                *)

\* the most bindings a loaded document holds when a call is made on it
MaxModelValues == 3

\* the bindings a call is given: variable A at each scope slot, with value y
ModelValues ==
    {VariableValue("A", Plain(<<"y">>), Slots[i].scope_type,
                   Slots[i].environment_name, Slots[i].location_id) : i \in 1..Len(Slots)}

ModelInit ==
    /\ \E d \in ScopeDocs :
          /\ file = WriteEnvarsYml(d)
          /\ manager = LoadFromYaml(WriteEnvarsYml(d)).m
    /\ last = NoLast
    /\ res = NoRes
    /\ output_file = NoFile
    /\ cf_exports = NoExports

\* the end of a call: the manager as the call left it
ModelFinish(cmd, st, var_value) ==
    /\ manager' = st.m
    /\ last' = [cmd |-> cmd, exit |-> IF st.ok THEN 0 ELSE 1,
                error |-> IF st.ok THEN None ELSE "duplicate",
                var_name |-> var_value.variable_name,
                env |-> var_value.environment_name, loc |-> var_value.location_id,
                context |-> <<None, None>>]
    /\ UNCHANGED <<file, res, output_file, cf_exports>>

\* manager.add_variable_value(var_value)
ModelAddValue ==
    /\ Len(manager.variable_values) < MaxModelValues
    /\ \E var_value \in ModelValues :
          ModelFinish("add_variable_value",
                      AddVariableValue([ok |-> TRUE, m |-> manager], var_value), var_value)

\* add, lines 357-380, on the manager in memory
ModelReplaceValue ==
    /\ Len(manager.variable_values) < MaxModelValues
    /\ \E var_value \in ModelValues :
          ModelFinish("replace", ReplaceValue(manager, var_value), var_value)

ModelNext == ModelAddValue \/ ModelReplaceValue

SpecModel == ModelInit /\ [][ModelNext]_vars

\* the tuple that identifies a binding
ScopeTuple(vv) ==
    <<vv.variable_name, vv.scope_type, vv.environment_name, vv.location_id>>

NoDuplicates(m) ==
    \A i, j \in 1..Len(m.variable_values) :
        i # j => ScopeTuple(m.variable_values[i]) # ScopeTuple(m.variable_values[j])

\* the scope a well-formed binding has, given its environment and location
ScopeOf(env, loc) ==
    IF env # None /\ loc # None THEN "SPECIFIC"
    ELSE IF env # None THEN "ENVIRONMENT"
    ELSE IF loc # None THEN "LOCATION" ELSE "DEFAULT"

\* C10: a document loaded from a file stays, under calls of add_variable_value
\* and of add's replace-then-insert, free of two bindings with the same
\* (variable name, scope, environment name, location id); add_variable_value
\* raises exactly when the document has a binding with the tuple of the one
\* it is given, and then leaves the binding list as it was.
C10_UniqueBindings ==
    /\ [](NoDuplicates(manager))
    /\ [][last'.cmd = "add_variable_value" =>
            /\ last'.exit = 1 <=>
                  \E i \in 1..Len(manager.variable_values) :
                      ScopeTuple(manager.variable_values[i])
                          = <<last'.var_name, ScopeOf(last'.env, last'.loc),
                              last'.env, last'.loc>>
            /\ last'.exit = 1 => manager'.variable_values = manager.variable_values
            /\ last'.exit = 0 => Len(manager'.variable_values)
                                    = Len(manager.variable_values) + 1]_vars

\* C10's case: add_variable_value raised on a document of two bindings or more
C10_Witness ==
    /\ last.cmd = "add_variable_value" /\ last.exit = 1
    /\ Len(manager.variable_values) >= 2

---------------------------------------------------------------------------
(* Properties of the commands, continued *)

\* the bindings of m with the tuple t
BindingsAt(m, t) ==
    SelectSeq(m.variable_values, LAMBDA vv : ScopeTuple(vv) = t)

\* the persisted document after has exactly one binding with the tuple t,
\* holding value, and to every binding of before with another tuple there is
\* in after a binding of that tuple with the same value
FrameOfAdd(before, after, t, value) ==
    /\ Len(BindingsAt(after, t)) = 1
    /\ BindingsAt(after, t)[1].value = value
    /\ \A i \in 1..Len(before.variable_values) :
          ScopeTuple(before.variable_values[i]) # t =>
              /\ Len(BindingsAt(after, ScopeTuple(before.variable_values[i]))) = 1
              /\ BindingsAt(after, ScopeTuple(before.variable_values[i]))[1].value
                    = before.variable_values[i].value

\* the tuple of the binding the last add was given, in the document m
TupleOfAdd(m, l) ==
    <<l.var_name,
      ScopeOf(l.env, IF Truthy(l.loc) THEN LocIdOfName(m, l.loc) ELSE None),
      l.env,
      IF Truthy(l.loc) THEN LocIdOfName(m, l.loc) ELSE None>>

\* C11: a successful add of a value for variable v at a scope whose environment,
\* if any, is configured leaves the persisted document with exactly one binding
\* of v at that scope, holding the value, and with every binding of every other
\* (variable, scope, environment, location) tuple unchanged in value.
C11_AddFrame ==
    [][(/\ last'.cmd = "add" /\ last'.exit = 0
        /\ Truthy(last'.env) => last'.env \in Range(manager'.environments))
       => /\ LoadFromYaml(file').ok
          /\ FrameOfAdd(LoadFromYaml(file).m, LoadFromYaml(file').m,
                        TupleOfAdd(manager', last'),
                        BindingsAt(manager', TupleOfAdd(manager', last'))[1].value)]_vars

\* the DEFAULT-scoped bindings of m that hold a Secret
DefaultSecrets(m) ==
    SelectSeq(m.variable_values,
              LAMBDA vv : vv.scope_type = "DEFAULT" /\ vv.value.secret)

\* the defaults of the file f that hold a Secret
DefaultSecretsOfFile(f) ==
    SelectSeq(f.environment_variables,
              LAMBDA b : b.v.has_default /\ b.v.default.secret)

\* the adds with --secret and neither --env nor --loc
UnscopedSecretArgs ==
    {a \in AddArgs : a.secret /\ ~Truthy(a.env) /\ ~Truthy(a.loc)}

\* C12: from an initialised document, no sequence of commands leaves a
\* DEFAULT-scoped Secret in the document, in memory or in the file; on every
\* document reached, an add with --secret and neither --env nor --loc exits 1,
\* and the add that failed so left the file as it was.
C12_NoDefaultSecret ==
    /\ [](/\ DefaultSecrets(manager) = <<>>
          /\ file.exists => DefaultSecretsOfFile(file) = <<>>
          /\ (file.exists /\ Main(file).exit = 0) =>
                \A a \in UnscopedSecretArgs :
                    AddEnvVar(Main(file).m, a).exit = 1)
    /\ [][(last'.cmd = "add" /\ last'.error = "unscoped_secret")
            => (last'.exit = 1 /\ file' = file)]_vars

\* C12's case: an add with --secret and no scope was refused on a document
\* that holds a scoped Secret
C12_Witness ==
    /\ last.cmd = "add" /\ last.error = "unscoped_secret"
    /\ file.exists
    /\ \E i \in 1..Len(LoadFromYaml(file).m.variable_values) :
          LoadFromYaml(file).m.variable_values[i].value.secret

\* some binding of m has the environment e
EnvironmentInUse(m, e) ==
    \E vv \in Range(m.variable_values) : vv.environment_name = e

\* some binding of m has the id of the location named n
LocationInUse(m, n) ==
    \E lo \in Range(m.locations) :
        /\ lo.name = n
        /\ \E vv \in Range(m.variable_values) : vv.location_id = lo.location_id

\* what config --remove-env e does to the document m
RemoveEnvGuarded(m, e) ==
    /\ ConfigCommand(m, "remove_env", e).exit = 1 <=> EnvironmentInUse(m, e)
    /\ ~EnvironmentInUse(m, e) =>
          e \notin Range(WriteEnvarsYml(ConfigCommand(m, "remove_env", e).m)
                             .configuration.environments)

\* what config --remove-loc n does to the document m
RemoveLocGuarded(m, n) ==
    /\ ConfigCommand(m, "remove_loc", n).exit = 1 <=> LocationInUse(m, n)
    /\ ~LocationInUse(m, n) =>
          \A lo \in Range(WriteEnvarsYml(ConfigCommand(m, "remove_loc", n).m)
                              .configuration.locations) : lo.name # n

\* C17: on every document a command can load, config --remove-env E exits 1
\* exactly when some binding has the environment E, and config --remove-loc N
\* exactly when some binding has the location id of N; otherwise the removal
\* succeeds and the written document has no such environment or location; a
\* removal that failed so left the file as it was.
C17_RemoveGuards ==
    /\ []((file.exists /\ Main(file).exit = 0) =>
            /\ \A e \in {"dev", "prod"} : RemoveEnvGuarded(Main(file).m, e)
            /\ \A n \in {"aws", "gcp"} : RemoveLocGuarded(Main(file).m, n))
    /\ [][(last'.cmd = "config" /\ last'.error \in {"env_in_use", "loc_in_use"})
            => (last'.exit = 1 /\ file' = file)]_vars

\* C17's case: a removal of an environment was refused because a binding
\* names it, and the file still lists the environment
C17_Witness ==
    /\ last.cmd = "config" /\ last.error = "env_in_use"
    /\ EnvironmentInUse(manager, last.env)
    /\ last.env \in Range(file.configuration.environments)

---------------------------------------------------------------------------
(* cli.py: validate.  An error is [kind, var_name, names, context]: the     *)
(* variable the message names, the names of a cycle message, and the        *)
(* context the message names, <<None, None>> when it names none             *)

ValidateError(kind, var_name, names) ==
    [kind |-> kind, var_name |-> var_name, names |-> names, context |-> <<None, None>>]

\* validate, check 1: every binding belongs to a defined variable
ValueErrors(m) ==
    {ValidateError("undefined_variable", vv.variable_name, <<>>) :
        vv \in {x \in Range(m.variable_values) : x.variable_name \notin VariableNames(m)}}

\* validate, check 2: variable names are uppercase
CaseErrors(m) ==
    {ValidateError("not_uppercase", v.name, <<>>) :
        v \in {x \in Range(m.variables) : ~IsUpper(x.name)}}

\* validate, check 3: descriptions when they are mandatory
DescErrors(m) ==
    IF ~m.description_mandatory THEN {}
    ELSE {ValidateError("missing_description", v.name, <<>>) :
            v \in {x \in Range(m.variables) : ~Truthy(x.description)}}

\* validate, check 4: no DEFAULT-scoped Secret
SecretErrors(m, ignore_default_secrets) ==
    IF ignore_default_secrets THEN {}
    ELSE {ValidateError("default_secret", vv.variable_name, <<>>) :
            vv \in {x \in Range(m.variable_values) :
                        x.value.secret /\ x.scope_type = "DEFAULT"}}

\* validate, check 5: no indirection prefix of the other provider
RemoteErrors(m) ==
    {ValidateError("remote_mismatch", vv.variable_name, <<>>) :
        vv \in {x \in Range(m.variable_values) :
                  \/ /\ GetCloudProvider(m) = "aws"
                     /\ StartsWith(StrOf(x.value), "gcp_secret_manager:")
                  \/ /\ GetCloudProvider(m) = "gcp"
                     /\ \/ StartsWith(StrOf(x.value), "parameter_store:")
                        \/ StartsWith(StrOf(x.value), "cloudformation_export:")}}

\* validate, line 805: {vv.variable_name: vv.value for vv in variable_values}
AllVars(m) ==
    DictSetAll(<<>>, [i \in 1..Len(m.variable_values) |->
                        [k |-> m.variable_values[i].variable_name,
                         v |-> StrOf(m.variable_values[i].value)]])

\* validate, check 6 once _check_for_circular_dependencies returned or raised
CircularErrorsOf(check) ==
    IF check.ok THEN {} ELSE {ValidateError("circular", None, check.cycle_nodes)}

\* validate, check 6: circular dependencies
CircularErrors(m) == CircularErrorsOf(CheckForCircularDependencies(AllVars(m)))

\* validate, check 7: every value matches the validation rule of its variable
ValidationErrors(m) ==
    {ValidateError("validation", vv.variable_name, <<>>) :
        vv \in {x \in Range(m.variable_values) :
                  ~ValidateVariableValue(m, x.variable_name, StrOf(x.value))}}

\* validate_command: the set of errors it prints
ValidateCommand(m, ignore_default_secrets) ==
    ValueErrors(m) \cup CaseErrors(m) \cup DescErrors(m)
        \cup SecretErrors(m, ignore_default_secrets) \cup RemoteErrors(m)
        \cup CircularErrors(m) \cup ValidationErrors(m)

---------------------------------------------------------------------------
(* Validation against resolution: a document, validate on it, and           *)
(* resolution passes over it                                                 *)

\* the values of a binding of the validated documents; Absent for no binding
ValidateTexts == {Absent, <<"x">>, <<Ref("A")>>, <<Ref("B")>>}

\* the bindings of one variable in the order a load lists them: the default,
\* the dev binding, the prod binding
ScopedValuesOf(var_name, texts) ==
    SelectSeq(<<VariableValue(var_name, Plain(texts[1]), "DEFAULT", None, None),
                VariableValue(var_name, Plain(texts[2]), "ENVIRONMENT", "dev", None),
                VariableValue(var_name, Plain(texts[3]), "ENVIRONMENT", "prod", None)>>,
              LAMBDA vv : vv.value.text # Absent)

\* documents with environments dev and prod and location aws: A and B, each
\* with any default, any dev binding and any prod binding
ValidateDocs ==
    { ManagerOf(TheKey, TwoEnvs, <<Location("aws", "1", None)>>,
                <<Variable("A", None, None), Variable("B", None, None)>>,
                ScopedValuesOf("A", ta) \o ScopedValuesOf("B", tb))
      : ta \in [1..3 -> ValidateTexts], tb \in [1..3 -> ValidateTexts] }

ValidateInit ==
    /\ manager \in ValidateDocs
    /\ file = NoFile
    /\ last = NoLast
    /\ res = NoRes
    /\ output_file = NoFile
    /\ cf_exports = NoExports

\* the end of validate: exit 1 when it printed errors
ValidateFinish(errors) ==
    /\ last' = [cmd |-> "validate", exit |-> IF errors = {} THEN 0 ELSE 1,
                error |-> IF errors = {} THEN None ELSE "validation_failed",
                var_name |-> None, env |-> None, loc |-> None,
                context |-> <<None, None>>, errors |-> errors]
    /\ UNCHANGED <<file, manager, res, output_file, cf_exports>>

\* envars validate [--ignore-default-secrets]
Validate ==
    \E ignore_default_secrets \in BOOLEAN :
        ValidateFinish(ValidateCommand(manager, ignore_default_secrets))

ValidateNext == Validate \/ Resolve

SpecValidate == ValidateInit /\ [][ValidateNext]_vars

\* C13: when validate reported no violation on the document, a resolution pass
\* with decrypt=true over it, for a configured environment and location, in
\* which no KMS or indirection adapter call failed, does not fail.
C13_ValidateImpliesResolve ==
    (/\ last.cmd = "validate" /\ last.exit = 0
     /\ res.called /\ res.decrypt
     /\ res.pass.error \notin {"decrypt", "not_found"})
        => res.pass.status = "ok"

\* the circular-dependency errors validate printed
CircularReported == {e \in last.errors : e.kind = "circular"}

\* C14: validate reports a circular-dependency violation exactly when the
\* reference graph over the bindings selected for some configured
\* (environment, location) pair is cyclic, and the violation names such a pair.
C14_ValidateCyclesPerContext ==
    last.cmd = "validate" =>
        /\ CircularReported # {} <=> CyclicContexts(manager) # {}
        /\ \A e \in CircularReported : e.context \in CyclicContexts(manager)

---------------------------------------------------------------------------
(* cli.py: rotate-kms-key *)

\* rotate, lines 669-679: the context of the re-encryption
RotationContext(new_manager, vv) ==
    {<<"app", IF Truthy(new_manager.app) THEN new_manager.app ELSE "">>}
    \cup (IF Truthy(vv.environment_name) THEN {<<"env", vv.environment_name>>} ELSE {})
    \cup (IF Truthy(vv.location_id) /\ Truthy(LocNameOfId(new_manager, vv.location_id))
          THEN {<<"location", LocNameOfId(new_manager, vv.location_id)>>} ELSE {})

\* rotate, lines 667-702: the binding re-encrypted under the new key
Reencrypted(new_manager, vv, decrypted_value, new_kms_key) ==
    VariableValue(vv.variable_name,
                  KmsEncrypt(decrypted_value, new_kms_key, RotationContext(new_manager, vv)),
                  vv.scope_type, vv.environment_name, vv.location_id)

\* rotate, lines 659-704, with a Secret that fails to decrypt copied as it is
RECURSIVE RotateLoopCopying(_, _, _, _)
RotateLoopCopying(m, st, new_kms_key, i) ==
    IF i > Len(m.variable_values) THEN
        IF st.ok THEN Done(st.m) ELSE Fail(st.m, "duplicate")
    ELSE IF ~m.variable_values[i].value.secret
            \/ ~GetDecryptedValue(m, m.variable_values[i]).ok
    THEN RotateLoopCopying(m, AddVariableValue(st, m.variable_values[i]), new_kms_key, i + 1)
    ELSE IF ~IsAwsKey(new_kms_key) /\ ~IsGcpKey(new_kms_key)
    THEN Fail(st.m, "unknown_kms_key")
    ELSE RotateLoopCopying(m,
            AddVariableValue(st,
                Reencrypted(st.m, m.variable_values[i],
                            GetDecryptedValue(m, m.variable_values[i]).text, new_kms_key)),
            new_kms_key, i + 1)

\* rotate, lines 659-704: the loop over the bindings from binding i on
RECURSIVE RotateLoop(_, _, _, _)
RotateLoop(m, st, new_kms_key, i) ==
    IF i > Len(m.variable_values) THEN
        IF st.ok THEN Done(st.m) ELSE Fail(st.m, "duplicate")
    ELSE IF ~m.variable_values[i].value.secret
    THEN RotateLoop(m, AddVariableValue(st, m.variable_values[i]), new_kms_key, i + 1)
    ELSE IF ~GetDecryptedValue(m, m.variable_values[i]).ok
    THEN Fail(st.m, "decrypt")
    ELSE IF ~IsAwsKey(new_kms_key) /\ ~IsGcpKey(new_kms_key)
    THEN Fail(st.m, "unknown_kms_key")
    ELSE RotateLoop(m,
            AddVariableValue(st,
                Reencrypted(st.m, m.variable_values[i],
                            GetDecryptedValue(m, m.variable_values[i]).text, new_kms_key)),
            new_kms_key, i + 1)

\* rotate, lines 646-657: the new manager before the bindings are copied
NewManager(m, new_kms_key) ==
    [VariableManager(m.app, new_kms_key, m.description_mandatory) EXCEPT
        !.environments = m.environments, !.locations = m.locations,
        !.variables = m.variables]

\* rotate_kms_key on the loaded manager m: the outcome holds the new manager
RotateKmsKey(m, new_kms_key) ==
    RotateLoop(m, [ok |-> TRUE, m |-> NewManager(m, new_kms_key)], new_kms_key, 1)

---------------------------------------------------------------------------
(* Key rotation: a document in the file, and rotate-kms-key runs on it      *)

\* the scoped slots of a rotated document: dev, aws, and dev at aws
RotateSlots == SelectSeq(Slots, LAMBDA sl : sl.tag \in {"e-dev", "l-aws", "s-dev-aws"})

\* what a slot holds: nothing, a plaintext, a Secret sealed under the context
\* the resolver derives, or a Secret sealed under the context add derives
SlotKinds == {"absent", "plain", "sealed", "added"}

\* the binding of A at a slot, its text naming the slot
RotateValue(m, slot, kind) ==
    LET vv == SlotValue("A", slot)
    IN  IF kind = "plain" THEN vv
        ELSE IF kind = "sealed"
        THEN [vv EXCEPT !.value = KmsEncrypt(<<slot.tag>>, m.kms_key,
                                             DecryptionContext(m, vv))]
        ELSE [vv EXCEPT !.value = KmsEncrypt(<<slot.tag>>, m.kms_key,
                    EncryptionContext(m, slot.environment_name,
                                      LocNameOfId(m, slot.location_id)))]

\* documents with environment dev, location aws and an AWS or a GCP key:
\* variable A with any kind of binding at each scoped slot
RotateDocs ==
    { LET m == ManagerOf(key, <<"dev">>, <<Location("aws", "1", None)>>,
                         <<Variable("A", None, None)>>, <<>>)
          chosen == SelectSeq([i \in 1..3 |-> i], LAMBDA i : kinds[i] # "absent")
      IN  [m EXCEPT !.variable_values =
              [j \in 1..Len(chosen) |->
                  RotateValue(m, RotateSlots[chosen[j]], kinds[chosen[j]])]]
      : key \in {TheKey, "projects/p1"}, kinds \in [1..3 -> SlotKinds] }

RotateInit ==
    /\ \E d \in RotateDocs : file = WriteEnvarsYml(d)
    /\ manager = EmptyManager
    /\ last = NoLast
    /\ res = NoRes
    /\ output_file = NoFile
    /\ cf_exports = NoExports

NewKeys == {"arn:aws:kms:k2", "projects/p2", "k3"}

\* the end of rotate: the new manager is written to the output file when the
\* command succeeded; the manager of the invocation is the loaded one
RotateFinish(loaded, out) ==
    /\ last' = [cmd |-> "rotate", exit |-> out.exit, error |-> out.error,
                var_name |-> None, env |-> None, loc |-> None,
                context |-> <<None, None>>]
    /\ manager' = loaded.m
    /\ output_file' = IF out.exit = 0 THEN WriteEnvarsYml(out.m) ELSE output_file
    /\ UNCHANGED <<file, res, cf_exports>>

RotateRun(loaded) ==
    \E new_kms_key \in NewKeys :
        RotateFinish(loaded, IF loaded.exit = 0
                             THEN RotateKmsKey(loaded.m, new_kms_key) ELSE loaded)

\* envars rotate-kms-key --new-kms-key K
RotateCmd == RotateRun(Main(file))

RotateNext == RotateCmd

SpecRotate == RotateInit /\ [][RotateNext]_vars

\* the Secret bindings of m
Secrets(m) == SelectSeq(m.variable_values, LAMBDA vv : vv.value.secret)

\* the binding vv of the document old yields in the document new, decrypted
\* under new's key and the resolver's context, the plaintext it yields in old
SamePlaintext(old, new, vv) ==
    /\ Len(BindingsAt(new, ScopeTuple(vv))) = 1
    /\ GetDecryptedValue(new, BindingsAt(new, ScopeTuple(vv))[1]).ok
    /\ GetDecryptedValue(new, BindingsAt(new, ScopeTuple(vv))[1]).text
          = GetDecryptedValue(old, vv).text

\* C15: after rotate-kms-key succeeded, every Secret binding of the original
\* document yields in the new document, decrypted under the new key with the
\* context the resolver derives, the plaintext it yielded in the original
\* under the old key.
C15_RotatePreservesPlaintext ==
    (last.cmd = "rotate" /\ last.exit = 0) =>
        /\ LoadFromYaml(output_file).ok
        /\ \A i \in 1..Len(Secrets(manager)) :
              SamePlaintext(manager, LoadFromYaml(output_file).m, Secrets(manager)[i])

\* some Secret binding of m fails to decrypt
SomeDecryptionFails(m) ==
    \E i \in 1..Len(Secrets(m)) : ~GetDecryptedValue(m, Secrets(m)[i]).ok

\* C16: a rotate-kms-key on a document one of whose Secret bindings fails to
\* decrypt exits 1, writes no output file and leaves the original file as it
\* was.
C16_RotateAborts ==
    /\ []((last.cmd = "rotate" /\ SomeDecryptionFails(manager))
            => (last.exit = 1 /\ ~output_file.exists))
    /\ [][(last'.cmd = "rotate" /\ SomeDecryptionFails(manager'))
            => (output_file' = output_file /\ file' = file)]_vars

\* C16's case: rotate aborted on a decryption failure in a document that also
\* holds a Secret it can decrypt
C16_Witness ==
    /\ last.cmd = "rotate" /\ last.error = "decrypt"
    /\ \E i \in 1..Len(Secrets(manager)) :
          GetDecryptedValue(manager, Secrets(manager)[i]).ok
    /\ ~output_file.exists

---------------------------------------------------------------------------
(* Indirection prefixes and validation patterns: an initialised document,   *)
(* adds with --validation, and config --kms-key                              *)

OptionKeys == {TheKey, "projects/p1"}

\* the state after envars init --app app --env dev --kms-key K
OptionsInit ==
    /\ \E kms_key \in OptionKeys :
          file = WriteEnvarsYml(InitManager(TheApp, <<"dev">>, <<>>, kms_key).m)
    /\ manager = EmptyManager
    /\ last = NoLast
    /\ res = NoRes
    /\ output_file = NoFile
    /\ cf_exports = NoExports

OptionValues ==
    {<<"x">>, <<"y">>, <<"parameter_store:", "k">>, <<"gcp_secret_manager:", "k">>}

\* the arguments of an add of the plaintext variable A, with or without a
\* validation pattern
OptionArgs ==
    [var_name : {"A"}, var_value : OptionValues, env : {None, "dev"}, loc : {None},
     secret : {FALSE}, no_secret : {FALSE}, description : {None},
     validation : {None, "x", "y"}]

OptionsAddRun(loaded) ==
    \E a \in OptionArgs :
        Finish("add", IF loaded.exit = 0 THEN AddEnvVar(loaded.m, a) ELSE loaded,
               a.var_name, a.env, a.loc)

\* envars add A=value [--env dev] [--validation P]
OptionsAddCmd == OptionsAddRun(Main(file))

OptionsConfigRun(loaded) ==
    \E kms_key \in OptionKeys :
        Finish("config",
               IF loaded.exit = 0 THEN ConfigCommand(loaded.m, "kms_key", kms_key)
               ELSE loaded,
               None, None, None)

\* envars config --kms-key K
OptionsConfigCmd == OptionsConfigRun(Main(file))

OptionsNext == OptionsAddCmd \/ OptionsConfigCmd

SpecOptions == OptionsInit /\ [][OptionsNext]_vars

\* the plaintext bindings of m
Plaintexts(m) == SelectSeq(m.variable_values, LAMBDA vv : ~vv.value.secret)

\* no plaintext binding of m carries an indirection prefix of the provider the
\* key of m does not select
ProviderRespected(m) ==
    \A i \in 1..Len(Plaintexts(m)) :
        /\ IsAwsKey(m.kms_key)
              => ~StartsWith(Plaintexts(m)[i].value.text, "gcp_secret_manager:")
        /\ IsGcpKey(m.kms_key)
              => /\ ~StartsWith(Plaintexts(m)[i].value.text, "parameter_store:")
                 /\ ~StartsWith(Plaintexts(m)[i].value.text, "cloudformation_export:")

\* C18: in every document that successful add and config operations,
\* config --kms-key included, reach from an initialised document, no plaintext
\* binding starts with gcp_secret_manager: under an AWS key, and none starts
\* with parameter_store: or cloudformation_export: under a GCP key.
C18_ProviderPrefix ==
    LoadFromYaml(file).ok => ProviderRespected(LoadFromYaml(file).m)

\* every binding of a variable of m whose validation pattern is set matches
\* the pattern with its stored raw value
PatternsRespected(m) ==
    \A i \in 1..Len(m.variables), j \in 1..Len(m.variable_values) :
        (/\ Truthy(m.variables[i].validation)
         /\ m.variable_values[j].variable_name = m.variables[i].name)
            => ReMatch(m.variables[i].validation, StrOf(m.variable_values[j].value))

\* C19: in every document that successful add operations reach, every binding
\* of a variable whose validation pattern is set matches the pattern with its
\* stored raw value, the add that sets or changes the pattern and the
\* bindings that were there before it included.
C19_ValuesMatchPattern ==
    LoadFromYaml(file).ok => PatternsRespected(LoadFromYaml(file).m)

---------------------------------------------------------------------------
(* Properties of the resolution engine, continued *)

\* the variables of a context whose selected text references a name with no
\* selected binding in the context
Dangling(m, e, l, decrypt) ==
    {v \in SelectedNames(m, e, l) :
        ~(Deps(SelectedText(m, v, e, l, decrypt)) \subseteq SelectedNames(m, e, l))}

\* C20: a pass over a context where the selected value of some variable
\* references a name with no selected binding fails with a template error and
\* returns no mapping; the missing name is never replaced by the empty string.
C20_UndefinedReferenceFails ==
    (/\ res.called /\ PickedOk(res.pass)
     /\ res.pass.error # "circular"
     /\ Dangling(manager, res.env, res.loc, res.decrypt) # {})
        => /\ res.pass.status = "error"
           /\ res.pass.error = "template"
           /\ res.pass.out = <<>>

---------------------------------------------------------------------------
(* Indirections: documents whose values carry the prefixes, and a           *)
(* resolution pass over them                                                 *)

LookupKeys == {"k", "kt", "kp", "missing"}

\* the default values of the lookup documents: a plain text, each prefix with
\* each key, and a parameter whose key is a template
LookupTexts ==
    {<<"x">>, <<"k">>, <<"missing">>, Absent}
    \cup {<<prefix, key>> : prefix \in Prefixes, key \in LookupKeys}
    \cup {<<"parameter_store:", Ref("B")>>}

\* documents with variables A and B and any default values
LookupDocs ==
    { LET named == [i \in 1..2 |->
                       VariableValue(NameOrder[i], Plain(texts[i]), "DEFAULT", None, None)]
      IN  ManagerOf(TheKey, <<"dev">>, <<Location("aws", "1", None)>>,
                    <<Variable("A", None, None), Variable("B", None, None)>>,
                    SelectSeq(named, LAMBDA vv : vv.value.text # Absent))
      : texts \in [1..2 -> LookupTexts] }

LookupInit ==
    /\ manager \in LookupDocs
    /\ file = NoFile
    /\ last = NoLast
    /\ res = NoRes
    /\ output_file = NoFile
    /\ cf_exports = NoExports

SpecLookup == LookupInit /\ [][ResolveNext]_vars

\* the variables whose rendered value starts with an indirection prefix
Indirect(pass) ==
    {v \in DictKeys(pass.rendered) :
        /\ DictValue(pass.rendered, v) # <<>>
        /\ Head(DictValue(pass.rendered, v)) \in Prefixes}

\* the answer of the adapter to the rendered value of v
Fetched(pass, v) ==
    AdapterGet(Head(DictValue(pass.rendered, v)), Tail(DictValue(pass.rendered, v)))

\* C21: a pass in which the adapter finds no value for the lookup key of some
\* variable fails with an error and returns no mapping; no mapping returned
\* holds the empty string or the prefixed reference in place of a value.
C21_MissingLookupFails ==
    /\ (res.called /\ \E v \in Indirect(res.pass) : ~Fetched(res.pass, v).found)
          => (res.pass.status = "error" /\ res.pass.out = <<>>)
    /\ (res.called /\ res.pass.status = "ok")
          => \A v \in Indirect(res.pass) :
                /\ DictValue(res.pass.out, v) # <<>>
                /\ DictValue(res.pass.out, v) # DictValue(res.pass.rendered, v)

\* C21's case: a pass fetched the value of one variable and then failed on a
\* stack export that the adapter does not find
C21_Witness ==
    /\ res.called /\ res.pass.error = "not_found"
    /\ \E u, v \in Indirect(res.pass) :
          /\ Fetched(res.pass, u).found
          /\ ~Fetched(res.pass, v).found
          /\ Head(DictValue(res.pass.rendered, v)) = "cloudformation_export:"

---------------------------------------------------------------------------
(* Resolution with the location omitted: get_env of the library and the     *)
(* commands of the command line that resolve a context                      *)

\* get_default_location_name on a manager whose cloud_provider the main
\* callback has set; account_id is what the credentials of the process give
GetDefaultLocationName(m, account_id) ==
    IF /\ GetCloudProvider(m) \in {"aws", "gcp"}
       /\ Truthy(account_id)
       /\ account_id \in LocationIds(m)
    THEN LocNameOfId(m, account_id)
    ELSE None

\* _resolve_and_print_context: the location the command resolves with, or the
\* error it exits on
ResolveAndPrintContext(m, loc, account_id) ==
    IF loc = None
    THEN IF m.locations = <<>> THEN [ok |-> TRUE, loc |-> None]
         ELSE IF GetDefaultLocationName(m, account_id) = None
         THEN [ok |-> FALSE, loc |-> None]
         ELSE [ok |-> TRUE, loc |-> GetDefaultLocationName(m, account_id)]
    ELSE IF loc \notin LocationNames(m) THEN [ok |-> FALSE, loc |-> loc]
    ELSE [ok |-> TRUE, loc |-> loc]

\* the commands exec, output and set-systemd-env once the context is resolved
ResolveCommand(m, context, env, decrypt) ==
    IF ~context.ok
    THEN Pass("error", "no_location", <<>>, <<>>, <<>>, <<>>, <<>>)
    ELSE GetResolvedVariables(m, context.loc, env, decrypt)

\* get_env of the library: load_from_yaml leaves the manager without the
\* cloud_provider attribute that get_default_location_name reads
GetEnv(m, env, loc) ==
    IF loc = None
    THEN Pass("error", "attribute", <<>>, <<>>, <<>>, <<>>, <<>>)
    ELSE GetResolvedVariables(m, loc, env, TRUE)

OmittedTexts == {Absent, <<"x">>, <<"y">>}

\* documents with environment dev, no location or the location aws, and
\* variables A and B with any DEFAULT and dev-scoped bindings
OmittedDocs ==
    { LET named == <<VariableValue("A", Plain(texts[1]), "DEFAULT", None, None),
                     VariableValue("A", Plain(texts[2]), "ENVIRONMENT", "dev", None),
                     VariableValue("B", Plain(texts[3]), "DEFAULT", None, None),
                     VariableValue("B", Plain(texts[4]), "ENVIRONMENT", "dev", None)>>
      IN  ManagerOf(TheKey, <<"dev">>, locations,
                    <<Variable("A", None, None), Variable("B", None, None)>>,
                    SelectSeq(named, LAMBDA vv : vv.value.text # Absent))
      : texts \in [1..4 -> OmittedTexts],
        locations \in {<<>>, <<Location("aws", "1", None)>>} }

OmittedInit ==
    /\ manager \in OmittedDocs
    /\ file = NoFile
    /\ last = NoLast
    /\ res = NoRes
    /\ output_file = NoFile
    /\ cf_exports = NoExports

\* get_env(env, loc) of the library
GetEnvCall ==
    \E loc \in {None, "aws"} :
        /\ res' = [called |-> TRUE, env |-> "dev", loc |-> loc, decrypt |-> TRUE,
                   pass |-> GetEnv(manager, "dev", loc)]
        /\ UNCHANGED <<file, manager, last, output_file, cf_exports>>

\* envars output --env dev [--loc L]
OutputCmd ==
    \E loc \in {None, "aws"}, account_id \in {None, "1"} :
        /\ res' = [called |-> TRUE, env |-> "dev", loc |-> loc, decrypt |-> TRUE,
                   pass |-> ResolveCommand(manager,
                                ResolveAndPrintContext(manager, loc, account_id),
                                "dev", TRUE)]
        /\ UNCHANGED <<file, manager, last, output_file, cf_exports>>

OmittedNext == GetEnvCall \/ OutputCmd

SpecOmitted == OmittedInit /\ [][OmittedNext]_vars

\* the value resolution owes v in a document without locations: that of the
\* ENVIRONMENT binding of e, or else that of the DEFAULT binding
OwedWithoutLocation(m, v, e) ==
    IF BindingAt(m, v, "ENVIRONMENT", e, None) # NoValue
    THEN BindingAt(m, v, "ENVIRONMENT", e, None).value.text
    ELSE BindingAt(m, v, "DEFAULT", None, None).value.text

\* C22: on a document that configures no locations, resolution with the
\* location omitted succeeds and returns for each variable the value of its
\* ENVIRONMENT binding for the environment, or else of its DEFAULT binding.
C22_NoLocationResolves ==
    (res.called /\ manager.locations = <<>> /\ res.loc = None) =>
        /\ res.pass.status = "ok"
        /\ \A v \in VariableNames(manager) :
              (\/ BindingAt(manager, v, "ENVIRONMENT", res.env, None) # NoValue
               \/ BindingAt(manager, v, "DEFAULT", None, None) # NoValue)
                 => /\ v \in DictKeys(res.pass.out)
                    /\ DictValue(res.pass.out, v) = OwedWithoutLocation(manager, v, res.env)

---------------------------------------------------------------------------
(* The order of the mapping a pass returns, and the names a cycle error     *)
(* lists                                                                     *)

\* the names of the variables of m in the order the document declares them
DeclarationOrder(m) == [i \in 1..Len(m.variables) |-> m.variables[i].name]

\* C23: the mapping a pass returns lists the variables in the order the
\* document declares them, also when the template of a variable references a
\* variable declared after it.
C23_DeclarationOrder ==
    (res.called /\ res.pass.status = "ok") =>
        DictKeySeq(res.pass.out)
            = SelectSeq(DeclarationOrder(manager),
                        LAMBDA v : v \in DictKeys(res.pass.out))

\* C25: the names a circular-dependency error lists are, in lexicographic
\* order, exactly the variables on some directed cycle of the reference graph
\* of the context; a variable on no cycle is not listed, also when it
\* references a variable of a cycle.
C25_CycleNames ==
    (res.called /\ res.pass.error = "circular") =>
        res.pass.cycle_nodes
            = SortNames(OnCycle(ReferenceEdges(manager, res.env, res.loc, res.decrypt)))

---------------------------------------------------------------------------
(* aws_cloudformation.py: one CloudFormationExports instance and the calls  *)
(* of get_export_value on it                                                 *)

\* the most calls made on the instance
MaxCalls == 7

\* the pages paginate() yields, each a sequence of exports
ExportPages ==
    << <<[k |-> "e1", v |-> "v1"]>>,
       <<[k |-> "e2", v |-> "v2"], [k |-> "e3", v |-> "v3"]>> >>

\* where an enumeration breaks: before page 1, before page 2, or nowhere
FailurePoints == {0, 1, Len(ExportPages) + 1}

\* the loops of _populate_exports_cache from page i on; the enumeration raises
\* when it asks for the page after fail_at
RECURSIVE ReadPages(_, _, _)
ReadPages(cache, i, fail_at) ==
    IF i > fail_at THEN [ok |-> FALSE, cache |-> cache]
    ELSE IF i > Len(ExportPages) THEN [ok |-> TRUE, cache |-> cache]
    ELSE ReadPages(DictSetAll(cache, ExportPages[i]), i + 1, fail_at)

\* _populate_exports_cache that keeps the pages read before an error
PopulateExportsCacheKeeping(fail_at) == ReadPages(<<>>, 1, fail_at).cache

\* _populate_exports_cache: the new value of _exports_cache
PopulateExportsCache(fail_at) ==
    IF ReadPages(<<>>, 1, fail_at).ok THEN ReadPages(<<>>, 1, fail_at).cache
    ELSE None

\* self._exports_cache.get(export_name)
CacheGet(cache, export_name) ==
    IF cache = None THEN None
    ELSE IF export_name \in DictKeys(cache) THEN DictValue(cache, export_name)
    ELSE None

\* get_export_value: the instance after the call, with the call recorded
GetExportValue(self, export_name, fail_at) ==
    LET enumerated == self.exports_cache = None
        cache == IF enumerated THEN PopulateExportsCache(fail_at)
                 ELSE self.exports_cache
        failed == enumerated /\ ~ReadPages(<<>>, 1, fail_at).ok
    IN  [exports_cache |-> cache,
         calls |-> self.calls + 1,
         enumerations |-> self.enumerations + (IF enumerated THEN 1 ELSE 0),
         successes |-> self.successes + (IF enumerated /\ ~failed THEN 1 ELSE 0),
         last |-> [export_name |-> export_name, value |-> CacheGet(cache, export_name),
                   enumerated |-> enumerated, failed |-> failed]]

ExportsInit ==
    /\ file = NoFile
    /\ manager = EmptyManager
    /\ last = NoLast
    /\ res = NoRes
    /\ output_file = NoFile
    /\ cf_exports = NoExports

\* cf_exports.get_export_value(export_name), in a world where the enumeration
\* breaks at some point or at none
GetExportValueCall ==
    /\ cf_exports.calls < MaxCalls
    /\ \E export_name \in {"e1", "e2", "e3", "none"}, fail_at \in FailurePoints :
          cf_exports' = GetExportValue(cf_exports, export_name, fail_at)
    /\ UNCHANGED <<file, manager, last, res, output_file>>

ExportsNext == GetExportValueCall

SpecExports == ExportsInit /\ [][ExportsNext]_vars

\* every export of every page
AllExports == DictSetAll(DictSetAll(<<>>, ExportPages[1]), ExportPages[2])

\* C24: a call of get_export_value enumerates exactly when no earlier
\* enumeration on the instance completed; a call that does not enumerate is
\* answered from the cache of the completed enumeration; after a failed
\* enumeration the cache holds nothing, none of the pages read before the
\* failure, and the next call enumerates again.
C24_EnumerateOnce ==
    /\ [](cf_exports.successes = 0 <=> cf_exports.exports_cache = None)
    /\ [][cf_exports'.calls # cf_exports.calls =>
            /\ cf_exports'.last.enumerated <=> cf_exports.successes = 0
            /\ ~cf_exports'.last.enumerated =>
                  /\ cf_exports'.enumerations = cf_exports.enumerations
                  /\ cf_exports'.last.value
                        = CacheGet(AllExports, cf_exports'.last.export_name)
            /\ cf_exports'.last.failed =>
                  /\ cf_exports'.exports_cache = None
                  /\ cf_exports'.last.value = None]_vars

\* C24's case: an enumeration failed, the next one completed, and the call
\* after it was answered from the cache without an enumeration
C24_Witness ==
    /\ cf_exports.calls = 3
    /\ cf_exports.enumerations = 2
    /\ cf_exports.successes = 1
    /\ ~cf_exports.last.enumerated
    /\ cf_exports.last.value = "v3"

---------------------------------------------------------------------------
(* Properties of the dereference loop *)

\* the number of adapter calls a pass made for v
Lookups(pass, v) ==
    Cardinality({i \in 1..Len(pass.trace) :
                    pass.trace[i].ev = "lookup" /\ pass.trace[i].var = v})

\* C26: in a pass that succeeds, the adapter is called once for each variable
\* whose rendered value starts with an indirection prefix, with the rendered
\* text after the prefix as key, and never for another variable; the fetched
\* value is the output as it is, also when it holds a template or starts with
\* a prefix itself.
C26_SingleDereference ==
    /\ res.called =>
          \A v \in DictKeys(res.pass.rendered) :
              Lookups(res.pass, v) <= (IF v \in Indirect(res.pass) THEN 1 ELSE 0)
    /\ (res.called /\ res.pass.status = "ok") =>
          \A v \in DictKeys(res.pass.rendered) :
              IF v \in Indirect(res.pass)
              THEN /\ Lookups(res.pass, v) = 1
                   /\ DictValue(res.pass.out, v) = Fetched(res.pass, v).text
              ELSE DictValue(res.pass.out, v) = DictValue(res.pass.rendered, v)

\* C26's case: one fetched value holds a template and another starts with a
\* prefix, and both are in the output
C26_Witness ==
    /\ res.called /\ res.pass.status = "ok"
    /\ \E u, v \in Indirect(res.pass) :
          /\ DictValue(res.pass.out, u) = <<Ref("A")>>
          /\ DictValue(res.pass.out, v) = <<"parameter_store:", "k">>

---------------------------------------------------------------------------
(* The order of the keys of a variable block: a manager in memory, and      *)
(* write_envars_yml on it                                                    *)

WriteInit ==
    /\ manager \in ScopeDocs
    /\ file = NoFile
    /\ last = NoLast
    /\ res = NoRes
    /\ output_file = NoFile
    /\ cf_exports = NoExports

\* write_envars_yml(manager, file_path)
WriteCall ==
    /\ file' = WriteEnvarsYml(manager)
    /\ UNCHANGED <<manager, last, res, output_file, cf_exports>>

WriteNext == WriteCall

SpecWrite == WriteInit /\ [][WriteNext]_vars

\* the keys of the block after description, validation and default, in the
\* order the file lists them
ScopeKeys(block) == DictKeySeq(block.keys)

\* the bindings of v in m of one scope type
BindingsOfType(m, v, scope_type) ==
    {vv \in Range(m.variable_values) :
        vv.variable_name = v /\ vv.scope_type = scope_type}

\* the environments of the ENVIRONMENT bindings of v
ScalarEnvs(m, v) ==
    {vv.environment_name : vv \in BindingsOfType(m, v, "ENVIRONMENT")}

\* the locations of the LOCATION bindings of v
ScalarLocs(m, v) ==
    {LocNameOfId(m, vv.location_id) : vv \in BindingsOfType(m, v, "LOCATION")}

\* the environments of the SPECIFIC bindings of v
NestedEnvs(m, v) ==
    {vv.environment_name : vv \in BindingsOfType(m, v, "SPECIFIC")}

\* the keys by kind: the environments sorted, then the locations sorted, then
\* the environments of the nested mappings sorted, each key once, at the
\* place of its first kind
KeysByKind(m, v) ==
    Sorted(ScalarEnvs(m, v))
        \o Sorted(ScalarLocs(m, v) \ ScalarEnvs(m, v))
        \o Sorted(NestedEnvs(m, v) \ (ScalarEnvs(m, v) \cup ScalarLocs(m, v)))

\* C27 as stated: in each variable block of a written file the ENVIRONMENT
\* scalars, the LOCATION scalars and the SPECIFIC mappings come after
\* description, validation and default as one sequence sorted by outer key,
\* the three kinds interleaved.
C27_BlockKeysSorted ==
    file.exists =>
        \A i \in 1..Len(file.environment_variables) :
            ScopeKeys(file.environment_variables[i].v)
                = Sorted(DictKeys(file.environment_variables[i].v.keys))

\* C27 amended: in each variable block of a written file the keys after
\* description, validation and default are grouped by kind: the ENVIRONMENT
\* scalars sorted by environment, then the LOCATION scalars sorted by
\* location, then the SPECIFIC mappings sorted by environment; a key that
\* two kinds share appears once, at the place of the first of them.
C27_BlockKeysByKind ==
    file.exists =>
        \A i \in 1..Len(file.environment_variables) :
            ScopeKeys(file.environment_variables[i].v)
                = KeysByKind(manager, file.environment_variables[i].k)

\* C27's case: a block with an ENVIRONMENT scalar, a LOCATION scalar and a
\* SPECIFIC mapping whose keys are not in sorted order
C27_Witness ==
    /\ file.exists
    /\ \E i \in 1..Len(file.environment_variables) :
          ScopeKeys(file.environment_variables[i].v) = <<"prod", "aws", "dev">>

---------------------------------------------------------------------------
(* The clients of the indirection adapters *)

\* the adapter that serves a prefix
AdapterOf(prefix) ==
    IF prefix = "parameter_store:" THEN "ssm_store"
    ELSE IF prefix = "gcp_secret_manager:" THEN "gcp_secret_manager"
    ELSE "cf_exports"

\* the pass came to line 396, after the render loop
ReachedDereference(pass) == pass.status = "ok" \/ pass.error = "not_found"

\* the adapters whose client a pass acquired: _get_resolved_variables
\* constructs the three adapters before the dereference loop, and each
\* constructor creates its client
ClientsAcquired(pass) ==
    IF ReachedDereference(pass) THEN {"ssm_store", "gcp_secret_manager", "cf_exports"}
    ELSE {}

\* the adapters a value of the pass needs
ClientsNeeded(pass) ==
    {AdapterOf(Head(DictValue(pass.rendered, v))) : v \in Indirect(pass)}

\* C28: a pass acquires the client of an adapter only for a value that needs
\* the adapter; a pass over a document with no value using the prefix of an
\* adapter never acquires the client of that adapter.
C28_LazyClients ==
    res.called => ClientsAcquired(res.pass) \subseteq ClientsNeeded(res.pass)

---------------------------------------------------------------------------
(* The order of the render loop *)

\* the variables in the order the pass rendered them
RenderOrder(pass) ==
    LET renders == SelectSeq(pass.trace, LAMBDA event : event.ev = "render")
    IN  [i \in 1..Len(renders) |-> renders[i].var]

\* the position of v in a sequence that holds it once
PositionOf(order, v) == CHOOSE i \in 1..Len(order) : order[i] = v

\* C29: over an acyclic reference graph _check_for_circular_dependencies
\* returns a sequence that holds every variable of the context exactly once,
\* each after all the variables its value references; the render loop follows
\* it, so every referenced variable is rendered before the one that
\* references it.
C29_TopologicalOrder ==
    (/\ res.called /\ PickedOk(res.pass)
     /\ OnCycle(ReferenceEdges(manager, res.env, res.loc, res.decrypt)) = {})
        => /\ CheckForCircularDependencies(res.pass.resolved).ok
           /\ RenderOrder(res.pass) = CheckForCircularDependencies(res.pass.resolved).order
           /\ Len(RenderOrder(res.pass)) = Len(res.pass.resolved)
           /\ Range(RenderOrder(res.pass)) = DictKeys(res.pass.resolved)
           /\ \A v \in DictKeys(res.pass.resolved) :
                 \A u \in Deps(DictValue(res.pass.resolved, v))
                            \cap DictKeys(res.pass.resolved) :
                     PositionOf(RenderOrder(res.pass), u)
                        < PositionOf(RenderOrder(res.pass), v)

\* C29's case: A references B and B references C, each declared after the
\* variable that references it, and the pass rendered C, B, A
C29_Witness ==
    /\ res.called /\ res.pass.status = "ok"
    /\ {<<"B", "A">>, <<"C", "B">>}
          \subseteq ReferenceEdges(manager, res.env, res.loc, res.decrypt)
    /\ RenderOrder(res.pass) = <<"C", "B", "A">>

---------------------------------------------------------------------------
(* The errors of add: documents of several configurations, and adds whose    *)
(* arguments meet each check of add_env_var                                   *)

\* the most bindings a document holds when an add of this family starts
MaxErrorValues == 3

\* add_env_var, lines 214-241: the forms of the command line.  "pair" is
\* VAR=value, "no_equals" an assignment without "=", "conflict" an assignment
\* given with --var-name
AddCommand(m, a) ==
    IF a.form = "conflict" THEN Fail(m, "arguments")
    ELSE IF a.form = "no_equals" THEN Fail(m, "format")
    ELSE AddEnvVar(m, a)

\* documents with environment dev: with an AWS key, a GCP key or none, with
\* or without the location aws, descriptions mandatory or not; A has the
\* validation pattern x and the default x, B the default {{ C }}
ErrorDocs ==
    { [ManagerOf(kms_key, <<"dev">>, locations,
                 <<Variable("A", None, "x"), Variable("B", None, None)>>,
                 <<VariableValue("A", Plain(<<"x">>), "DEFAULT", None, None),
                   VariableValue("B", Plain(<<Ref("C")>>), "DEFAULT", None, None)>>)
          EXCEPT !.description_mandatory = mandatory]
      : kms_key \in {TheKey, "projects/p1", None},
        locations \in {<<>>, <<Location("aws", "1", None)>>},
        mandatory \in BOOLEAN }

ErrorsInit ==
    /\ \E d \in ErrorDocs : file = WriteEnvarsYml(d)
    /\ manager = EmptyManager
    /\ last = NoLast
    /\ res = NoRes
    /\ output_file = NoFile
    /\ cf_exports = NoExports

ErrorArgs ==
    [var_name : {"A", "a", "C", "TOKEN"},
     var_value : {<<"x">>, <<"y">>, <<Ref("B")>>, <<"gcp_secret_manager:", "k">>},
     env : {None, "dev"}, loc : {None, "aws"}, secret : BOOLEAN, no_secret : {FALSE},
     description : {None}, validation : {None},
     form : {"pair", "no_equals", "conflict"}]

ErrorsAddRun(loaded) ==
    /\ loaded.exit = 0 => Len(loaded.m.variable_values) < MaxErrorValues
    /\ \E a \in ErrorArgs :
          Finish("add", IF loaded.exit = 0 THEN AddCommand(loaded.m, a) ELSE loaded,
                 a.var_name, a.env, a.loc)

\* envars add with any of the arguments
ErrorsAddCmd == ErrorsAddRun(Main(file))

ErrorsNext == ErrorsAddCmd

SpecErrors == ErrorsInit /\ [][ErrorsNext]_vars

\* the arguments a fail one of the checks of add on the document m
Rejected(m, a) ==
    \/ a.form # "pair"
    \/ ~IsUpper(a.var_name)
    \/ ~ValidateVariableValue(m, a.var_name, a.var_value)
    \/ IsSensitive(a.var_name) /\ ~a.secret /\ ~a.no_secret
    \/ IsAwsKey(m.kms_key) /\ StartsWith(a.var_value, "gcp_secret_manager:")
    \/ /\ a.var_name \notin VariableNames(m)
       /\ m.description_mandatory /\ ~Truthy(a.description)
    \/ a.secret /\ ~Truthy(a.env) /\ ~Truthy(a.loc)
    \/ a.secret /\ ~Truthy(m.kms_key)
    \/ Truthy(a.loc) /\ a.loc \notin LocationNames(m)

=============================================================================
